---------------------------- MODULE Spec2Model ----------------------------
(***************************************************************************)
(* A model of the AI investment news monitor: the scraper's                *)
(* de-duplication (src/scraper/news_fetcher.py), the rule-based and        *)
(* LLM-assisted analyzer (src/analyzer/news_analyzer.py), the              *)
(* fetch-analyze-persist cycle (src/main.py) and the scheduler that        *)
(* triggers it (src/utils/scheduler.py).                                   *)
(*                                                                         *)
(* Text is a sequence of one-character strings, so that str.lower(),       *)
(* str.strip(), slicing and the substring test `kw in text` are computed   *)
(* rather than assumed.  Scores are kept in hundredths (0.35 is 35) and    *)
(* the overall score in thousandths; time is counted in whole hours.       *)
(***************************************************************************)
EXTENDS Integers, Sequences, FiniteSets, TLC

VARIABLES
    \* NewsFetcher._deduplicate_news: the merged list and the result; the
    \* relevant entries of the feeds, in source order
    all_news, unique_news, dedup_pc, entries,
    \* a scoring function called on its own: the call and what it returned
    call, ret, score_pc,
    \* NewsAnalyzer.analyze_news_batch: its argument, the analyzer's client,
    \* the list built so far, the start of the current group, the results of
    \* the group's tasks and the tasks that have finished
    news_list, batch_llm, analyzed_news, group_start, results, task_done, batch_pc,
    \* the service: the NewsArticle and TrendingTopic tables, the cycle tasks,
    \* NewsScheduler.is_running, the fetch jobs registered with `schedule`,
    \* the application's phase and the number of cycles started
    articles, topics, cycle, is_running, fetch_jobs, app_pc, started,
    \* the cleanup jobs registered with `schedule`, the _run_scheduler tasks
    \* that have not been cancelled, and the "already running" warnings logged
    cleanup_jobs, scheduler_tasks, warnings,
    \* AIInvestmentNewsAgent: its is_running flag, the jobs registered with
    \* `schedule`, and where each run_scheduler thread stands
    agent_is_running, agent_jobs, scheduler_threads,
    \* ConnectionManager: the list of connections; a broadcast's position in
    \* it, its list of failed connections and where it stands; the sockets
    \* whose send raises and those whose endpoint has returned; the
    \* connections listed when the broadcast began and those it has sent to
    active_connections, position, disconnected, broadcast_pc, failing, closed,
    at_begin, sent_to

dedupVars == <<all_news, unique_news, dedup_pc, entries>>
scoreVars == <<call, ret, score_pc>>
batchVars == <<news_list, batch_llm, analyzed_news, group_start, results, task_done, batch_pc>>
cycleVars == <<articles, topics, cycle, is_running, fetch_jobs, app_pc, started,
               cleanup_jobs, scheduler_tasks, warnings>>
threadVars == <<agent_is_running, agent_jobs, scheduler_threads>>
connVars == <<active_connections, position, disconnected, broadcast_pc, failing, closed,
              at_begin, sent_to>>
vars == <<dedupVars, scoreVars, batchVars, cycleVars, threadVars, connVars>>

(***************************************************************************)
(* Text primitives (Python str).                                           *)
(***************************************************************************)
\* A missing dictionary key / Python None.
None == <<"None">>

UpperCase == {"A","B","C","D","E","F","G","H","I","J","K","L","M",
              "N","O","P","Q","R","S","T","U","V","W","X","Y","Z"}

\* str.lower() on one character.
LowerChar(c) ==
    CASE c = "A" -> "a" [] c = "B" -> "b" [] c = "C" -> "c" [] c = "D" -> "d"
      [] c = "E" -> "e" [] c = "F" -> "f" [] c = "G" -> "g" [] c = "H" -> "h"
      [] c = "I" -> "i" [] c = "J" -> "j" [] c = "K" -> "k" [] c = "L" -> "l"
      [] c = "M" -> "m" [] c = "N" -> "n" [] c = "O" -> "o" [] c = "P" -> "p"
      [] c = "Q" -> "q" [] c = "R" -> "r" [] c = "S" -> "s" [] c = "T" -> "t"
      [] c = "U" -> "u" [] c = "V" -> "v" [] c = "W" -> "w" [] c = "X" -> "x"
      [] c = "Y" -> "y" [] c = "Z" -> "z" [] OTHER -> c

\* str.lower()
Lower(s) == [i \in 1..Len(s) |-> LowerChar(s[i])]

\* The characters str.strip() removes (ASCII white space).
WhiteSpace == {" ", "\t", "\n", "\r"}

\* str.strip(): drop leading and trailing white space.
Strip(s) ==
    LET keep == {i \in 1..Len(s) : s[i] \notin WhiteSpace}
    IN  IF keep = {} THEN <<>>
        ELSE LET lo == CHOOSE i \in keep : \A j \in keep : i <= j
                 hi == CHOOSE i \in keep : \A j \in keep : j <= i
             IN  SubSeq(s, lo, hi)

\* The substring test `kw in text`.
Contains(kw, text) ==
    \E i \in 0..(Len(text) - Len(kw)) :
        \A j \in 1..Len(kw) : text[i + j] = kw[j]

\* The slice s[:n].
Prefix(s, n) == SubSeq(s, 1, IF Len(s) < n THEN Len(s) ELSE n)

(***************************************************************************)
(* NewsAnalyzer: keyword tables (src/analyzer/news_analyzer.py).           *)
(***************************************************************************)
\* self.funding_rounds, in list order.
funding_rounds ==
    << <<"p","r","e","-","s","e","e","d">>, <<"s","e","e","d">>, <<"s","e","r","i","e","s"," ","a">>, <<"s","e","r","i","e","s"," ","b">>, <<"s","e","r","i","e","s"," ","c">>,
       <<"s","e","r","i","e","s"," ","d">>, <<"b","r","i","d","g","e"," ","r","o","u","n","d">>, <<"i","p","o">>, <<"a","c","q","u","i","s","i","t","i","o","n">>, <<"m","e","r","g","e","r">> >>

\* self.important_companies, in list order.
important_companies ==
    << <<"o","p","e","n","a","i">>, <<"a","n","t","h","r","o","p","i","c">>, <<"g","o","o","g","l","e">>, <<"m","i","c","r","o","s","o","f","t">>, <<"m","e","t","a">>, <<"a","m","a","z","o","n">>,
       <<"a","p","p","l","e">>, <<"n","v","i","d","i","a">>, <<"t","e","s","l","a">>, <<"s","p","a","c","e","x">>, <<"d","e","e","p","m","i","n","d">>,
       <<"h","u","g","g","i","n","g"," ","f","a","c","e">>, <<"s","t","a","b","i","l","i","t","y"," ","a","i">>, <<"m","i","d","j","o","u","r","n","e","y">>, <<"r","u","n","w","a","y">>,
       <<"c","h","a","r","a","c","t","e","r",".","a","i">>, <<"p","e","r","p","l","e","x","i","t","y">> >>

\* ai_weights, in hundredths, in dictionary order.
ai_weights ==
    << [kw |-> <<"a","r","t","i","f","i","c","i","a","l"," ","i","n","t","e","l","l","i","g","e","n","c","e">>, w |-> 20], [kw |-> <<"a","i">>, w |-> 15],
       [kw |-> <<"m","a","c","h","i","n","e"," ","l","e","a","r","n","i","n","g">>, w |-> 20], [kw |-> <<"d","e","e","p"," ","l","e","a","r","n","i","n","g">>, w |-> 15],
       [kw |-> <<"n","e","u","r","a","l"," ","n","e","t","w","o","r","k">>, w |-> 10], [kw |-> <<"l","l","m">>, w |-> 20],
       [kw |-> <<"o","p","e","n","a","i">>, w |-> 30], [kw |-> <<"c","h","a","t","g","p","t">>, w |-> 25],
       [kw |-> <<"g","p","t">>, w |-> 20], [kw |-> <<"c","l","a","u","d","e">>, w |-> 20],
       [kw |-> <<"a","n","t","h","r","o","p","i","c">>, w |-> 25], [kw |-> <<"g","o","o","g","l","e"," ","a","i">>, w |-> 20],
       [kw |-> <<"m","i","c","r","o","s","o","f","t"," ","a","i">>, w |-> 20] >>

\* investment_weights, in hundredths, in dictionary order.
investment_weights ==
    << [kw |-> <<"f","u","n","d","i","n","g">>, w |-> 30], [kw |-> <<"i","n","v","e","s","t","m","e","n","t">>, w |-> 25],
       [kw |-> <<"v","e","n","t","u","r","e"," ","c","a","p","i","t","a","l">>, w |-> 30], [kw |-> <<"s","e","r","i","e","s"," ","a">>, w |-> 35],
       [kw |-> <<"s","e","r","i","e","s"," ","b">>, w |-> 35], [kw |-> <<"s","e","r","i","e","s"," ","c">>, w |-> 35],
       [kw |-> <<"i","p","o">>, w |-> 40], [kw |-> <<"a","c","q","u","i","s","i","t","i","o","n">>, w |-> 40],
       [kw |-> <<"m","e","r","g","e","r">>, w |-> 35], [kw |-> <<"s","t","a","r","t","u","p">>, w |-> 20],
       [kw |-> <<"v","a","l","u","a","t","i","o","n">>, w |-> 25], [kw |-> <<"r","a","i","s","e">>, w |-> 30] >>

\* categories of _categorize_news, in dictionary order.
categories ==
    << [name |-> "funding",
        keywords |-> << <<"f","u","n","d","i","n","g">>, <<"i","n","v","e","s","t","m","e","n","t">>, <<"r","a","i","s","e">>, <<"r","o","u","n","d">>, <<"c","a","p","i","t","a","l">> >>],
       [name |-> "acquisition",
        keywords |-> << <<"a","c","q","u","i","s","i","t","i","o","n">>, <<"m","e","r","g","e","r">>, <<"a","c","q","u","i","r","e","d">>, <<"b","o","u","g","h","t">> >>],
       [name |-> "ipo",
        keywords |-> << <<"i","p","o">>, <<"p","u","b","l","i","c">>, <<"s","t","o","c","k">>, <<"n","a","s","d","a","q">>, <<"n","y","s","e">> >>],
       [name |-> "product",
        keywords |-> << <<"l","a","u","n","c","h">>, <<"r","e","l","e","a","s","e">>, <<"p","r","o","d","u","c","t">>, <<"f","e","a","t","u","r","e">>, <<"m","o","d","e","l">> >>],
       [name |-> "partnership",
        keywords |-> << <<"p","a","r","t","n","e","r","s","h","i","p">>, <<"c","o","l","l","a","b","o","r","a","t","i","o","n">>, <<"a","l","l","i","a","n","c","e">>, <<"d","e","a","l">> >>],
       [name |-> "research",
        keywords |-> << <<"r","e","s","e","a","r","c","h">>, <<"p","a","p","e","r">>, <<"s","t","u","d","y">>, <<"b","r","e","a","k","t","h","r","o","u","g","h">>, <<"d","i","s","c","o","v","e","r","y">> >>],
       [name |-> "regulation",
        keywords |-> << <<"r","e","g","u","l","a","t","i","o","n">>, <<"p","o","l","i","c","y">>, <<"l","a","w">>, <<"g","o","v","e","r","n","m","e","n","t">>, <<"b","a","n">> >>] >>

(***************************************************************************)
(* Arithmetic and regular-expression primitives.                           *)
(***************************************************************************)
\* min(a, b)
Min(a, b) == IF a < b THEN a ELSE b

\* The sum of f over the indices 1..n.
RECURSIVE SumTo(_, _)
SumTo(f, n) == IF n = 0 THEN 0 ELSE f[n] + SumTo(f, n - 1)

\* \d and [a-z]
Digits == {"0","1","2","3","4","5","6","7","8","9"}
LowerCaseLetters == {LowerChar(c) : c \in UpperCase}

\* A greedy character-class repetition: the first position at or after i
\* whose character is not in class (Len(t) + 1 when the run reaches the end).
RunEnd(t, i, class) ==
    CHOOSE e \in i..(Len(t) + 1) :
        /\ \A k \in i..(e - 1) : t[k] \in class
        /\ e = Len(t) + 1 \/ t[e] \notin class

\* A literal at position i.
StartsWith(t, i, w) ==
    /\ i >= 1
    /\ i + Len(w) - 1 <= Len(t)
    /\ \A j \in 1..Len(w) : t[i + j - 1] = w[j]

\* (\d+(?:\.\d+)?) at position i: the position after it, 0 if there is none.
NumEnd(t, i) ==
    LET d == RunEnd(t, i, Digits)
    IN  IF i > Len(t) \/ d = i THEN 0
        ELSE IF d < Len(t) /\ t[d] = "." /\ RunEnd(t, d + 1, Digits) > d + 1
             THEN RunEnd(t, d + 1, Digits)
             ELSE d

\* The value of a string of digits.
RECURSIVE DigitsValue(_)
DigitsValue(s) ==
    IF s = <<>> THEN 0
    ELSE 10 * DigitsValue(SubSeq(s, 1, Len(s) - 1))
         + (CHOOSE v \in 0..9 : <<"0","1","2","3","4","5","6","7","8","9">>[v + 1] = s[Len(s)])

\* float(s) for the strings the model passes: digits with an optional
\* fraction parse (the value's whole part is kept, which decides >= 100 and
\* >= 50); anything else raises ValueError.
FloatParses(s) == s # <<>> /\ NumEnd(s, 1) = Len(s) + 1
FloatWhole(s) == DigitsValue(SubSeq(s, 1, RunEnd(s, 1, Digits) - 1))

\* str.title(); UpperChar is str.upper() on one character.
Title(s) ==
    LET UpperChar(c) ==
            IF c \in LowerCaseLetters THEN CHOOSE u \in UpperCase : LowerChar(u) = c ELSE c
    IN  [i \in 1..Len(s) |->
            IF i = 1 \/ s[i - 1] \notin (UpperCase \cup LowerCaseLetters)
            THEN UpperChar(s[i]) ELSE LowerChar(s[i])]

\* The least element of a non-empty set of integers.
Least(S) == CHOOSE i \in S : \A j \in S : i <= j

(***************************************************************************)
(* NewsAnalyzer._calculate_relevance_score (lines 127-157).                *)
(***************************************************************************)
\* The sum of the weights of the table's keywords that occur in text.
WeightOf(table, text) ==
    SumTo([k \in 1..Len(table) |->
              IF Contains(table[k].kw, text) THEN table[k].w ELSE 0],
          Len(table))

RawRelevance(text) ==
    WeightOf(ai_weights, text) + WeightOf(investment_weights, text)

_calculate_relevance_score(text) == Min(RawRelevance(text), 100)

(***************************************************************************)
(* NewsAnalyzer._extract_funding_amount (lines 159-173).  re.IGNORECASE    *)
(* is the match on the lower-cased text; the capture is digits and ".".    *)
(***************************************************************************)
UnitsShort == << <<"m","i","l","l","i","o","n">>, <<"b","i","l","l","i","o","n">>, <<"m">>, <<"b">> >>
UnitsLong == << <<"m","i","l","l","i","o","n">>, <<"b","i","l","l","i","o","n">> >>

\* \s*(?:unit|...) at position i.
UnitAt(t, i, units) ==
    \E k \in 1..Len(units) : StartsWith(t, RunEnd(t, i, WhiteSpace), units[k])

\* \$?(\d+(?:\.\d+)?)\s*(?:units) at position i: where the number starts,
\* 0 if there is no match.
DollarNumUnit(t, i, units) ==
    LET n == IF StartsWith(t, i, <<"$">>) THEN i + 1 ELSE i
    IN  IF NumEnd(t, n) # 0 /\ UnitAt(t, NumEnd(t, n), units) THEN n ELSE 0

\* Each pattern at position i: where its captured number starts, 0 if the
\* pattern does not match there.
AmountPatternAt(p, t, i) ==
    CASE p = 1 ->
           IF StartsWith(t, i, <<"$">>) THEN DollarNumUnit(t, i, UnitsShort) ELSE 0
      [] p = 2 ->
           IF /\ NumEnd(t, i) # 0
              /\ \E k \in 1..Len(UnitsLong) :
                    LET u == RunEnd(t, NumEnd(t, i), WhiteSpace)
                    IN  /\ StartsWith(t, u, UnitsLong[k])
                        /\ LET v == RunEnd(t, u + Len(UnitsLong[k]), WhiteSpace)
                           IN  StartsWith(t, v, <<"d","o","l","l","a","r">>) \/ StartsWith(t, v, <<"$">>)
           THEN i ELSE 0
      [] p = 3 ->
           IF StartsWith(t, i, <<"r","a","i","s","e","d">>) /\ RunEnd(t, i + 6, WhiteSpace) > i + 6
           THEN DollarNumUnit(t, RunEnd(t, i + 6, WhiteSpace), UnitsShort) ELSE 0
      [] p = 4 ->
           IF /\ StartsWith(t, i, <<"f","u","n","d","i","n","g">>)
              /\ RunEnd(t, i + 7, WhiteSpace) > i + 7
              /\ StartsWith(t, RunEnd(t, i + 7, WhiteSpace), <<"o","f">>)
              /\ RunEnd(t, RunEnd(t, i + 7, WhiteSpace) + 2, WhiteSpace)
                     > RunEnd(t, i + 7, WhiteSpace) + 2
           THEN DollarNumUnit(t, RunEnd(t, RunEnd(t, i + 7, WhiteSpace) + 2, WhiteSpace),
                              UnitsShort)
           ELSE 0

\* re.findall(pattern, text)[0], or None when there is no match.
FirstAmount(p, text) ==
    LET t == Lower(text)
        at == {i \in 1..Len(t) : AmountPatternAt(p, t, i) # 0}
    IN  IF at = {} THEN None
        ELSE LET n == AmountPatternAt(p, t, Least(at))
             IN  SubSeq(text, n, NumEnd(t, n) - 1)

_extract_funding_amount(text) ==
    LET found == {p \in 1..4 : FirstAmount(p, text) # None}
    IN  IF found = {} THEN None ELSE FirstAmount(Least(found), text)

(***************************************************************************)
(* NewsAnalyzer._extract_funding_round (lines 175-180).                    *)
(***************************************************************************)
\* A mutant that returns the round whose name stands first in the text.
ExtractRoundFirstInText(text) ==
    LET hit == {k \in 1..Len(funding_rounds) : Contains(funding_rounds[k], text)}
        at(k) == Least({i \in 1..Len(text) : StartsWith(text, i, funding_rounds[k])})
    IN  IF hit = {} THEN None
        ELSE funding_rounds[CHOOSE k \in hit :
                                \A j \in hit : at(k) < at(j) \/ (at(k) = at(j) /\ k <= j)]

_extract_funding_round(text) ==
    LET hit == {k \in 1..Len(funding_rounds) : Contains(funding_rounds[k], text)}
    IN  IF hit = {} THEN None ELSE funding_rounds[Least(hit)]

(***************************************************************************)
(* NewsAnalyzer._extract_companies (lines 182-203).  The four              *)
(* company_patterns are matched case-sensitively: their capture            *)
(* [A-Z][a-z]+(?:\s+[A-Z][a-z]+)* starts with an upper-case letter.        *)
(***************************************************************************)
\* [A-Z][a-z]+ at position i: the position after it, 0 if there is none.
CapWordEnd(t, i) ==
    IF /\ i >= 1 /\ i <= Len(t) /\ t[i] \in UpperCase
       /\ RunEnd(t, i + 1, LowerCaseLetters) > i + 1
    THEN RunEnd(t, i + 1, LowerCaseLetters) ELSE 0

\* (?:\s+[A-Z][a-z]+)* after a word that ends before position e (greedy).
RECURSIVE CapSeqFrom(_, _)
CapSeqFrom(t, e) ==
    LET w == RunEnd(t, e, WhiteSpace)
    IN  IF w > e /\ CapWordEnd(t, w) # 0 THEN CapSeqFrom(t, CapWordEnd(t, w)) ELSE e

\* The capture group at position i: the position after it, 0 if none.
CapSeqEnd(t, i) == IF CapWordEnd(t, i) = 0 THEN 0 ELSE CapSeqFrom(t, CapWordEnd(t, i))

CompanySuffixes == << <<"i","n","c">>, <<"c","o","r","p">>, <<"l","t","d">>, <<"l","l","c">> >>

\* Each pattern at position i: [from, to, next] the capture and the position
\* after the match, or NoMatch.
NoMatch == [from |-> 0, to |-> 0, next |-> 0]

CompanyPatternAt(p, t, i) ==
    CASE p \in {1, 2} ->
           LET e == CapSeqEnd(t, i)
               w == RunEnd(t, e, WhiteSpace)
               suffixes == IF p = 1 THEN CompanySuffixes ELSE << <<"r","a","i","s","e","d">> >>
               hit == {k \in 1..Len(suffixes) : StartsWith(t, w, suffixes[k])}
           IN  IF e # 0 /\ w > e /\ hit # {}
               THEN [from |-> i, to |-> e - 1, next |-> w + Len(suffixes[Least(hit)])]
               ELSE NoMatch
      [] p \in {3, 4} ->
           LET word == IF p = 3 THEN <<"s","t","a","r","t","u","p">> ELSE <<"c","o","m","p","a","n","y">>
               w == RunEnd(t, i + Len(word), WhiteSpace)
           IN  IF /\ StartsWith(t, i, word)
                  /\ w > i + Len(word)
                  /\ CapSeqEnd(t, w) # 0
               THEN [from |-> w, to |-> CapSeqEnd(t, w) - 1, next |-> CapSeqEnd(t, w)]
               ELSE NoMatch

\* re.findall(pattern, text): the captures of the non-overlapping matches
\* found scanning from position from.
RECURSIVE FindAllCompanies(_, _, _)
FindAllCompanies(p, t, from) ==
    LET at == {i \in from..Len(t) : CompanyPatternAt(p, t, i) # NoMatch}
    IN  IF at = {} THEN {}
        ELSE LET m == CompanyPatternAt(p, t, Least(at))
             IN  {SubSeq(t, m.from, m.to)} \cup FindAllCompanies(p, t, m.next)

_extract_companies(text) ==
    {Title(important_companies[k]) :
        k \in {j \in 1..Len(important_companies) :
                  Contains(important_companies[j], text)}}
    \cup UNION {FindAllCompanies(p, text, 1) : p \in 1..4}

(***************************************************************************)
(* NewsAnalyzer._categorize_news (lines 221-241).                          *)
(***************************************************************************)
\* score = sum(1 for keyword in keywords if keyword in text)
CategoryScore(c, text) ==
    Cardinality({k \in 1..Len(categories[c].keywords) :
                    Contains(categories[c].keywords[k], text)})

\* max(category_scores, key=category_scores.get): the first category, in
\* dictionary order, with the highest score.
\* A mutant that returns the last category with the highest score.
CategorizeLastBest(text) ==
    LET scored == {c \in 1..Len(categories) : CategoryScore(c, text) > 0}
        best == {c \in scored :
                    \A d \in scored : CategoryScore(d, text) <= CategoryScore(c, text)}
    IN  IF scored = {} THEN "general"
        ELSE categories[CHOOSE c \in best : \A d \in best : d <= c].name

_categorize_news(text) ==
    LET scored == {c \in 1..Len(categories) : CategoryScore(c, text) > 0}
        best == {c \in scored :
                    \A d \in scored : CategoryScore(d, text) <= CategoryScore(c, text)}
    IN  IF scored = {} THEN "general" ELSE categories[Least(best)].name

(***************************************************************************)
(* NewsAnalyzer._calculate_importance_score (lines 243-282).               *)
(***************************************************************************)
\* The funding-amount signal (lines 248-261).
AmountBonus(analysis, text) ==
    LET funding_amount == analysis.funding_amount
    IN  IF funding_amount \in {None, <<>>} THEN 0
        ELSE IF ~FloatParses(funding_amount) THEN 0
        ELSE IF Contains(<<"b","i","l","l","i","o","n">>, text) \/ Contains(<<"b">>, funding_amount) THEN 40
        ELSE IF FloatWhole(funding_amount) >= 100 THEN 30
        ELSE IF FloatWhole(funding_amount) >= 50 THEN 20
        ELSE 10

\* The company signal (lines 264-267).
CompanyBonus(analysis) ==
    IF \E comp \in analysis.companies :
           \E k \in 1..Len(important_companies) : Lower(comp) = important_companies[k]
    THEN 30 ELSE 0

\* The funding-round signal (lines 270-276).
RoundBonus(analysis) ==
    IF analysis.funding_round \in {<<"i","p","o">>, <<"a","c","q","u","i","s","i","t","i","o","n">>, <<"m","e","r","g","e","r">>} THEN 40
    ELSE IF analysis.funding_round \in {<<"s","e","r","i","e","s"," ","c">>, <<"s","e","r","i","e","s"," ","d">>} THEN 30
    ELSE IF analysis.funding_round \in {<<"s","e","r","i","e","s"," ","a">>, <<"s","e","r","i","e","s"," ","b">>} THEN 20
    ELSE 0

\* The keyword-density signal (lines 279-280).
DensityBonus(analysis) == IF analysis.relevance_score > 80 THEN 20 ELSE 0

RawImportance(analysis, text) ==
    AmountBonus(analysis, text) + CompanyBonus(analysis)
    + RoundBonus(analysis) + DensityBonus(analysis)

\* A mutant that returns the sum unclamped.
ImportanceUnclamped(analysis, text) == RawImportance(analysis, text)

_calculate_importance_score(analysis, text) ==
    Min(RawImportance(analysis, text), 100)

(***************************************************************************)
(* NewsAnalyzer._determine_urgency (lines 284-302).  A published date is   *)
(* [present, hour, aware]: the hour it names and whether the datetime      *)
(* carries a tzinfo; NoDate is None.  A call returns Return(v) or          *)
(* Raise(exception).                                                       *)
(***************************************************************************)
Return(v) == [raised |-> FALSE, value |-> v]
Raise(e) == [raised |-> TRUE, value |-> e]

NoDate == [present |-> FALSE, hour |-> 0, aware |-> FALSE]

_determine_urgency(analysis, news, utcnow) ==
    LET importance == analysis.importance_score
        published_date == news.published_date
        hours_old == utcnow - published_date.hour
        by_importance ==
            IF importance > 80 THEN "high"
            ELSE IF importance > 50 THEN "medium"
            ELSE "low"
    IN  IF ~published_date.present THEN Return(by_importance)
        \* datetime.utcnow() is naive: subtracting an aware datetime raises
        ELSE IF published_date.aware THEN Raise("TypeError")
        ELSE IF hours_old < 2 /\ importance > 70 THEN Return("high")
        ELSE IF hours_old < 6 /\ importance > 50 THEN Return("medium")
        ELSE Return(by_importance)

(***************************************************************************)
(* NewsAnalyzer._basic_analysis (lines 85-125).  The investors list is     *)
(* extracted but read by no score and is left out of the record.           *)
(***************************************************************************)
\* full_text = f"{title} {content}" with content = f"{summary} {content}".lower()
\* A mutant that joins the fields as written, without lower-casing them.
FullTextAsWritten(news) ==
    news.title \o <<" ">> \o news.summary \o <<" ">> \o news.content

FullText(news) ==
    Lower(news.title) \o <<" ">> \o Lower(news.summary \o <<" ">> \o news.content)

\* Lines 91-117: the fields extracted from the text.
ExtractFields(full_text) ==
    [relevance_score |-> _calculate_relevance_score(full_text),
     importance_score |-> 0,
     funding_amount |-> _extract_funding_amount(full_text),
     funding_round |-> _extract_funding_round(full_text),
     companies |-> _extract_companies(full_text),
     category |-> _categorize_news(full_text),
     urgency |-> "low",
     key_points |-> <<>>]

\* Lines 120-125: the importance and the urgency computed on the record.
ScoreFields(extracted, full_text, news, utcnow) ==
    LET scored == {[extracted EXCEPT !.importance_score = i] :
                      i \in {_calculate_importance_score(extracted, full_text)}}
    IN  CHOOSE r \in {IF u.raised THEN u ELSE Return([a EXCEPT !.urgency = u.value]) :
                         <<a, u>> \in {<<a, _determine_urgency(a, news, utcnow)>> :
                                          a \in scored}} : TRUE

_basic_analysis(news, utcnow) ==
    \* news.get('title', '').lower() on a title that is None
    IF news.title = None THEN Raise("AttributeError")
    ELSE CHOOSE r \in {ScoreFields(e[2], e[1], news, utcnow) :
                          e \in {<<t, ExtractFields(t)>> : t \in {FullText(news)}}} : TRUE

\* The analysis record as _basic_analysis initialises it (lines 91-101).
BlankAnalysis ==
    [relevance_score |-> 0, importance_score |-> 0, funding_amount |-> None,
     funding_round |-> None, companies |-> {}, category |-> "unknown",
     urgency |-> "low", key_points |-> <<>>]

(***************************************************************************)
(* The LLM client of NewsAnalyzer (lines 16, 63, 332-339): absent when no  *)
(* API key is configured; otherwise one chat completion either raises or   *)
(* yields the reply text response.choices[0].message.content.              *)
(***************************************************************************)
NoClient == [configured |-> FALSE, raises |-> FALSE, content |-> None]
ClientRaises == [configured |-> TRUE, raises |-> TRUE, content |-> None]
ClientReplies(text) == [configured |-> TRUE, raises |-> FALSE, content |-> text]

\* JSON values a reply carries for market_impact; a number is held in tenths.
JNumber(tenths) == [type |-> "number", tenths |-> tenths]
JString == [type |-> "string", tenths |-> 0]
JNull == [type |-> "null", tenths |-> 0]

\* A parsed JSON document: an object with the keys it carries, or a value
\* of another type (array, number, string, null).
JsonObject(keys, summary, key_points, market_impact, trend_analysis, risk_assessment) ==
    [type |-> "object", keys |-> keys, summary |-> summary,
     key_points |-> key_points, market_impact |-> market_impact,
     trend_analysis |-> trend_analysis, risk_assessment |-> risk_assessment]
JsonOther(type) ==
    [type |-> type, keys |-> {}, summary |-> <<>>, key_points |-> <<>>,
     market_impact |-> JNull, trend_analysis |-> <<>>, risk_assessment |-> <<>>]

\* json.loads (line 343) on the reply texts used here.
JsonDocuments ==
    { [text |-> <<"{","\"","s","u","m","m","a","r","y","\"",":"," ","\"","A","I"," ","d","e","a","l","\"",","," ","\"","k","e","y","_","p","o","i","n","t","s","\"",":"," ","[","\"","a","\"",","," ","\"","b","\"","]",","," ","\"","m","a","r","k","e","t","_","i","m","p","a","c","t","\"",":"," ","4",","," ","\"","t","r","e","n","d","_","a","n","a","l","y","s","i","s","\"",":"," ","\"","u","p","\"",","," ","\"","r","i","s","k","_","a","s","s","e","s","s","m","e","n","t","\"",":"," ","\"","l","o","w","\"","}">>,
       json |-> Return(JsonObject({"summary", "key_points", "market_impact", "trend_analysis", "risk_assessment"}, <<"A","I"," ","d","e","a","l">>, << <<"a">>, <<"b">> >>, JNumber(40), <<"u","p">>, <<"l","o","w">>))],
      [text |-> <<"{","\"","m","a","r","k","e","t","_","i","m","p","a","c","t","\"",":"," ","5","}">>,
       json |-> Return(JsonObject({"market_impact"}, <<>>, <<>>, JNumber(50), <<>>, <<>>))],
      [text |-> <<"{","\"","m","a","r","k","e","t","_","i","m","p","a","c","t","\"",":"," ","1","0","}">>,
       json |-> Return(JsonObject({"market_impact"}, <<>>, <<>>, JNumber(100), <<>>, <<>>))],
      [text |-> <<"{","\"","m","a","r","k","e","t","_","i","m","p","a","c","t","\"",":"," ","-","1","}">>,
       json |-> Return(JsonObject({"market_impact"}, <<>>, <<>>, JNumber(-10), <<>>, <<>>))],
      [text |-> <<"{","\"","m","a","r","k","e","t","_","i","m","p","a","c","t","\"",":"," ","4",".","5","}">>,
       json |-> Return(JsonObject({"market_impact"}, <<>>, <<>>, JNumber(45), <<>>, <<>>))],
      [text |-> <<"{","\"","m","a","r","k","e","t","_","i","m","p","a","c","t","\"",":"," ","\"","h","i","g","h","\"","}">>,
       json |-> Return(JsonObject({"market_impact"}, <<>>, <<>>, JString, <<>>, <<>>))],
      [text |-> <<"{","\"","m","a","r","k","e","t","_","i","m","p","a","c","t","\"",":"," ","n","u","l","l","}">>,
       json |-> Return(JsonObject({"market_impact"}, <<>>, <<>>, JNull, <<>>, <<>>))],
      [text |-> <<"{","\"","s","u","m","m","a","r","y","\"",":"," ","\"","A","I"," ","d","e","a","l","\"","}">>,
       json |-> Return(JsonObject({"summary"}, <<"A","I"," ","d","e","a","l">>, <<>>, JNull, <<>>, <<>>))],
      [text |-> <<"{","}">>, json |-> Return(JsonObject({}, <<>>, <<>>, JNull, <<>>, <<>>))],
      [text |-> <<"[","1",","," ","2","]">>, json |-> Return(JsonOther("array"))],
      [text |-> <<"4","2">>, json |-> Return(JsonOther("number"))],
      [text |-> <<"\"","o","k","\"">>, json |-> Return(JsonOther("string"))],
      [text |-> <<"n","u","l","l">>, json |-> Return(JsonOther("null"))],
      [text |-> <<"H","e","r","e"," ","i","s"," ","t","h","e"," ","a","n","a","l","y","s","i","s",":"," ","{","\"","m","a","r","k","e","t","_","i","m","p","a","c","t","\"",":"," ","4","}">>, json |-> Raise("JSONDecodeError")],
      [text |-> <<"M","a","r","k","e","t"," ","i","m","p","a","c","t",":"," ","4">>, json |-> Raise("JSONDecodeError")],
      \* A reply of more than 200 characters that is no JSON document.
      [text |-> <<"S","u","m","m","a","r","y",":"," ","t","h","e"," ","c","o","m","p","a","n","y"," ","c","l","o","s","e","d"," ","a"," ","n","e","w"," ","f","u","n","d","i","n","g"," ","r","o","u","n","d"," ","l","e","d"," ","b","y"," ","e","x","i","s","t","i","n","g"," ","i","n","v","e","s","t","o","r","s","."," ">> \o <<"K","e","y"," ","p","o","i","n","t","s",":"," ","t","h","e"," ","r","o","u","n","d"," ","v","a","l","u","e","s"," ","t","h","e"," ","c","o","m","p","a","n","y"," ","h","i","g","h","e","r"," ","t","h","a","n"," ","t","h","e"," ","l","a","s","t"," ","o","n","e",";"," ","t","h","e"," ","m","o","n","e","y"," ","g","o","e","s"," ","t","o"," ","c","o","m","p","u","t","e"," ","a","n","d"," ","h","i","r","i","n","g","."," ">> \o <<"M","a","r","k","e","t"," ","i","m","p","a","c","t",":"," ","4"," ","o","f"," ","5","."," ","T","r","e","n","d",":"," ","c","a","p","i","t","a","l"," ","k","e","e","p","s"," ","f","l","o","w","i","n","g"," ","t","o"," ","f","o","u","n","d","a","t","i","o","n"," ","m","o","d","e","l","s",".">>,
       json |-> Raise("JSONDecodeError")],
      [text |-> <<>>, json |-> Raise("JSONDecodeError")],
      \* a completion without text: json.loads(None)
      [text |-> None, json |-> Raise("TypeError")] }

json_loads(s) == (CHOOSE d \in JsonDocuments : d.text = s).json

(***************************************************************************)
(* NewsAnalyzer._ai_analysis (lines 304-356).  The dict it returns is a    *)
(* record with the set of keys present; a key that is absent holds the     *)
(* blank value.  The prompt is built from title, summary and content,      *)
(* which are texts here, so lines 307-330 do not raise.                    *)
(***************************************************************************)
AiDict(keys, ai_summary, key_points, market_impact, trend_analysis, risk_assessment) ==
    [keys |-> keys, ai_summary |-> ai_summary, key_points |-> key_points,
     market_impact |-> market_impact, trend_analysis |-> trend_analysis,
     risk_assessment |-> risk_assessment]

EmptyDict == AiDict({}, <<>>, <<>>, JNull, <<>>, <<>>)

\* Lines 344-350: parsed_result.get(key, default) for the five keys.
ParsedFields(parsed_result) ==
    AiDict({"ai_summary", "key_points", "market_impact", "trend_analysis", "risk_assessment"},
           IF "summary" \in parsed_result.keys THEN parsed_result.summary ELSE <<>>,
           IF "key_points" \in parsed_result.keys THEN parsed_result.key_points ELSE <<>>,
           IF "market_impact" \in parsed_result.keys THEN parsed_result.market_impact
                                                     ELSE JNumber(30),
           IF "trend_analysis" \in parsed_result.keys THEN parsed_result.trend_analysis ELSE <<>>,
           IF "risk_assessment" \in parsed_result.keys THEN parsed_result.risk_assessment ELSE <<>>)

\* Line 352: the decode-error branch keeps ai_result[:200].
RawSummary(ai_result) ==
    [EmptyDict EXCEPT !.keys = {"ai_summary"}, !.ai_summary = Prefix(ai_result, 200)]

\* The decode-error branch if it also reported a market_impact of 0.
AiAnalysisZeroImpact(news, llm) ==
    IF llm.raises THEN EmptyDict
    ELSE [RawSummary(llm.content) EXCEPT !.keys = {"ai_summary", "market_impact"},
                                         !.market_impact = JNumber(0)]

_ai_analysis(news, llm) ==
    \* line 332 raises: caught at line 354
    IF llm.raises THEN EmptyDict
    ELSE LET ai_result == llm.content
             parsed == json_loads(ai_result)
         IN  IF parsed.raised
             THEN IF parsed.value = "JSONDecodeError" THEN RawSummary(ai_result)
                  \* any other exception reaches line 354
                  ELSE EmptyDict
             \* .get on a list, number, string or None: AttributeError, line 354
             ELSE IF parsed.value.type # "object" THEN EmptyDict
             ELSE ParsedFields(parsed.value)

(***************************************************************************)
(* NewsAnalyzer._calculate_overall_score (lines 358-364), in thousandths:  *)
(* relevance * 0.3 + importance * 0.4 + (market_impact / 5) * 0.3.         *)
(***************************************************************************)
\* A mutant whose market_impact defaults to 0.
OverallScoreNoDefault(analysis) ==
    LET market_impact ==
            IF "market_impact" \in analysis.ai_keys THEN analysis.market_impact
            ELSE JNumber(0)
    IN  IF market_impact.type # "number" THEN Raise("TypeError")
        ELSE Return(analysis.relevance_score * 3 + analysis.importance_score * 4
                    + market_impact.tenths * 6)

_calculate_overall_score(analysis) ==
    LET market_impact ==
            IF "market_impact" \in analysis.ai_keys THEN analysis.market_impact
            ELSE JNumber(30)
    IN  \* a str or None divided by 5
        IF market_impact.type # "number" THEN Raise("TypeError")
        ELSE Return(analysis.relevance_score * 3 + analysis.importance_score * 4
                    + market_impact.tenths * 6)

(***************************************************************************)
(* NewsAnalyzer.analyze_single_news (lines 55-83).                         *)
(***************************************************************************)
\* Lines 67-71: {**basic_analysis, **ai_analysis, 'analyzed_at': ...}.
MergeAnalysis(basic_analysis, ai_analysis, utcnow) ==
    [relevance_score |-> basic_analysis.relevance_score,
     importance_score |-> basic_analysis.importance_score,
     funding_amount |-> basic_analysis.funding_amount,
     funding_round |-> basic_analysis.funding_round,
     companies |-> basic_analysis.companies,
     category |-> basic_analysis.category,
     urgency |-> basic_analysis.urgency,
     key_points |-> IF "key_points" \in ai_analysis.keys THEN ai_analysis.key_points
                    ELSE basic_analysis.key_points,
     ai_keys |-> ai_analysis.keys,
     ai_summary |-> ai_analysis.ai_summary,
     market_impact |-> ai_analysis.market_impact,
     trend_analysis |-> ai_analysis.trend_analysis,
     risk_assessment |-> ai_analysis.risk_assessment,
     analyzed_at |-> utcnow,
     overall_score |-> 0]

NoAnalysis == MergeAnalysis(BlankAnalysis, EmptyDict, 0)

\* Lines 76-79: {**news, 'analysis': analysis}.
Analyzed(news, analysis) == [news |-> news, has_analysis |-> TRUE, analysis |-> analysis]
\* Line 83: news itself, which carries no 'analysis' key.
Bare(news) == [news |-> news, has_analysis |-> FALSE, analysis |-> NoAnalysis]

\* Lines 81-83: the handler slices news.get('title', '') for the log line.
ExceptHandler(news) ==
    IF news.title = None THEN Raise("TypeError") ELSE Return(Bare(news))

\* Lines 62-79, once _basic_analysis has returned.
FinishAnalysis(news, basic_analysis, llm, utcnow) ==
    LET ai_analysis == IF llm.configured THEN _ai_analysis(news, llm) ELSE EmptyDict
    IN  CHOOSE r \in {IF s[2].raised THEN ExceptHandler(news)
                      ELSE Return(Analyzed(news, [s[1] EXCEPT !.overall_score = s[2].value])) :
                         s \in {<<a, _calculate_overall_score(a)>> :
                                   a \in {MergeAnalysis(basic_analysis, ai_analysis, utcnow)}}} : TRUE

analyze_single_news(news, llm, utcnow) ==
    CHOOSE r \in {IF b.raised THEN ExceptHandler(news)
                  ELSE FinishAnalysis(news, b.value, llm, utcnow) :
                     b \in {_basic_analysis(news, utcnow)}} : TRUE

(***************************************************************************)
(* NewsFetcher._deduplicate_news (src/scraper/news_fetcher.py:165-181).    *)
(***************************************************************************)
\* Bound: the longest merged list that is de-duplicated.
MaxNews == 3

\* The links and titles the feeds may carry.  "" is the link of an entry
\* that has none (news.get('link', '')).
RawItems ==
    [link : {"", "https://a", "https://b"},
     title : {<<"A","I">>, <<"a","i"," ">>, <<" ","A","i">>, <<"G","P","T">>}]

\* title = news.get('title', '').lower().strip()
NormTitle(news) == Strip(Lower(news.title))

\* One iteration of the loop: st = [urls, titles, unique].  A mutant that
\* looks at the link only.
DedupStepLinkOnly(st, news) ==
    IF news.link \notin st.urls
    THEN [urls |-> st.urls \cup {news.link},
          titles |-> st.titles \cup {NormTitle(news)},
          unique |-> Append(st.unique, news)]
    ELSE st

\* A mutant that remembers the previous item of the list only, kept or not.
DedupStepAdjacent(st, news) ==
    [urls |-> {news.link},
     titles |-> {NormTitle(news)},
     unique |-> IF news.link \notin st.urls /\ NormTitle(news) \notin st.titles
                THEN Append(st.unique, news) ELSE st.unique]

DedupStep(st, news) ==
    IF news.link \notin st.urls /\ NormTitle(news) \notin st.titles
    THEN [urls |-> st.urls \cup {news.link},
          titles |-> st.titles \cup {NormTitle(news)},
          unique |-> Append(st.unique, news)]
    ELSE st

RECURSIVE DedupLoop(_, _)
DedupLoop(st, rest) ==
    IF rest = <<>> THEN st
    ELSE CHOOSE last \in {DedupLoop(next, Tail(rest)) :
                              next \in {DedupStep(st, Head(rest))}} : TRUE

_deduplicate_news(merged) ==
    DedupLoop([urls |-> {}, titles |-> {}, unique |-> <<>>], merged).unique

\* Whether the item at position i of merged is appended to unique_news:
\* the loop's test on the sets built from the items before it.
KeptAt(merged, i) ==
    LET st == DedupLoop([urls |-> {}, titles |-> {}, unique |-> <<>>],
                        SubSeq(merged, 1, i - 1))
    IN  DedupStep(st, merged[i]) # st

\* fetch_all_news, line 46: all_news = self._deduplicate_news(all_news)
Deduplicate ==
    /\ dedup_pc = "merged"
    /\ unique_news' = _deduplicate_news(all_news)
    /\ dedup_pc' = "deduplicated"
    /\ UNCHANGED <<all_news, entries>>

\* _deduplicate_news applied to its own output.
DeduplicateAgain ==
    /\ dedup_pc = "deduplicated"
    /\ unique_news' = _deduplicate_news(unique_news)
    /\ dedup_pc' = "again"
    /\ UNCHANGED <<all_news, entries>>

(***************************************************************************)
(* C1.  As stated: for every input list the output of _deduplicate_news    *)
(* has no two items with the same link and no two with the same            *)
(* normalized title, and of two input items with identical link but        *)
(* different titles exactly one survives, the one encountered first.       *)
(***************************************************************************)
NoDuplicateLeft ==
    \A i, j \in 1..Len(unique_news) :
        i < j => /\ unique_news[i].link # unique_news[j].link
                 /\ NormTitle(unique_news[i]) # NormTitle(unique_news[j])

\* Positions i < j of the input that carry the same link and titles that
\* differ (also once normalized), i being the first item with that link.
SameLinkPair(i, j) ==
    /\ i < j
    /\ all_news[i].link = all_news[j].link
    /\ NormTitle(all_news[i]) # NormTitle(all_news[j])
    /\ \A k \in 1..(i - 1) : all_news[k].link # all_news[i].link

\* No item before position i has item i's normalized title.
TitleNotSeenBefore(i) ==
    \A k \in 1..(i - 1) : NormTitle(all_news[k]) # NormTitle(all_news[i])

SharesKey(i, j) ==
    \/ all_news[i].link = all_news[j].link
    \/ NormTitle(all_news[i]) = NormTitle(all_news[j])

\* The items of the input at the positions in K, in input order.
Picked(K) ==
    LET RECURSIVE from(_)
        from(i) == IF i > Len(all_news) THEN <<>>
                   ELSE IF i \in K THEN <<all_news[i]>> \o from(i + 1)
                   ELSE from(i + 1)
    IN  from(1)

\* C11, the original statement: the output is the input without the items
\* that share a link or a normalized title with any earlier input item.
C11_DropsOnAnyEarlierItem ==
    dedup_pc = "deduplicated" =>
        unique_news = Picked({i \in 1..Len(all_news) :
                                 \A j \in 1..(i - 1) : ~SharesKey(i, j)})

\* C11 as amended: _deduplicate_news keeps the input order and drops an
\* item exactly when its normalized title or its exact link equals that of
\* some earlier item of the input list that was itself kept; every other
\* item is kept.
C11_DropsOnEarlierKeptItem ==
    dedup_pc = "deduplicated" =>
        \E K \in SUBSET (1..Len(all_news)) :
            /\ unique_news = Picked(K)
            /\ \A i \in 1..Len(all_news) :
                   i \in K <=> \A j \in K : j < i => ~SharesKey(i, j)

\* C11 witness: an item is kept although an earlier item of the input, itself
\* dropped, carries its normalized title or its link.
C11_Witness ==
    /\ dedup_pc = "deduplicated"
    /\ Len(all_news) = 3 /\ Len(unique_news) = 2
    /\ unique_news = <<all_news[1], all_news[3]>>
    /\ SharesKey(3, 2)

(***************************************************************************)
(* C12.  _deduplicate_news is idempotent: applying it to its own output    *)
(* returns that output unchanged.                                          *)
(***************************************************************************)
C12_DedupIdempotent ==
    [][dedup_pc = "deduplicated" => unique_news' = unique_news]_vars

\* C12 witness: a second pass has run over an output of two items that the
\* first pass had shortened.
C12_Witness ==
    /\ dedup_pc = "again"
    /\ Len(unique_news) = 2
    /\ Len(all_news) = 3


(***************************************************************************)
(* The two-source fetcher, src/ai_news_agent/news_fetcher.py.  fetch_rss_   *)
(* news returns items whose 'published' is a time.struct_time and          *)
(* fetch_news_api_news items whose 'published' is the publishedAt string;  *)
(* both return only items that pass is_ai_investment_related.              *)
(***************************************************************************)
AgentItems(kind) ==
    [link : {"https://a", "https://b"},
     title : {<<"A","I"," ","I","P","O">>, <<"a","i"," ","i","p","o">>,
              <<"M","L"," ","I","P","O">>},
     published : [kind : {kind}, t : 1..2]]

\* seen_titles holds news['title'].lower(); the link is not looked at.
agent_deduplicate_news(merged) ==
    LET RECURSIVE loop(_, _, _)
        loop(seen_titles, unique, rest) ==
            IF rest = <<>> THEN unique
            ELSE LET news == Head(rest)
                     title_lower == Lower(news.title)
                 IN  IF title_lower \notin seen_titles
                     THEN loop(seen_titles \cup {title_lower},
                               Append(unique, news), Tail(rest))
                     ELSE loop(seen_titles, unique, Tail(rest))
    IN  loop({}, <<>>, merged)

\* The gathered results are extended in task order, RSS first; sorted()
\* compares the 'published' values, which raises TypeError as soon as a
\* struct_time meets a str, and with reverse=True keeps the order of items
\* that compare equal.
agent_fetch_all_news(rss, api) ==
    LET unique == agent_deduplicate_news(rss \o api)
        kinds == {unique[i].published.kind : i \in 1..Len(unique)}
        RECURSIVE insert(_, _)
        insert(x, sorted) ==
            IF sorted = <<>> THEN <<x>>
            ELSE IF Head(sorted).published.t >= x.published.t
                 THEN <<Head(sorted)>> \o insert(x, Tail(sorted))
                 ELSE <<x>> \o sorted
        RECURSIVE sort(_)
        sort(items) ==
            IF items = <<>> THEN <<>>
            ELSE insert(items[Len(items)], sort(SubSeq(items, 1, Len(items) - 1)))
    IN  IF Cardinality(kinds) > 1 THEN Raise("TypeError")
        ELSE Return(sort(unique))

\* fetch_all_news: all_news is the merged list, its struct_time items being
\* the RSS result and its str items the news-API result.
AgentFetchAll ==
    /\ dedup_pc = "gathered"
    /\ LET IsRss(news) == news.published.kind = "struct_time"
           IsApi(news) == news.published.kind = "str"
       IN  ret' = agent_fetch_all_news(SelectSeq(all_news, IsRss),
                                       SelectSeq(all_news, IsApi))
    /\ dedup_pc' = "fetched"
    /\ UNCHANGED <<all_news, unique_news, entries>>

(***************************************************************************)
(* C13.  As stated: the list returned by the two-source fetch_all_news     *)
(* contains no two items with the same link, even when their titles        *)
(* differ.                                                                 *)
(***************************************************************************)
C13_NoTwoItemsWithSameLink ==
    (dedup_pc = "fetched" /\ ~ret.raised) =>
        \A i, j \in 1..Len(ret.value) :
            i < j => ret.value[i].link # ret.value[j].link

(***************************************************************************)
(* The scoring functions called on their own: call is the pending call     *)
(* (the function, the news item, the analysis record and the value of      *)
(* datetime.utcnow() passed to it), ret what it returned.                  *)
(***************************************************************************)
\* Bound: the oldest item age, in hours, that is tried.
MaxAge == 7

NaiveDate(h) == [present |-> TRUE, hour |-> h, aware |-> FALSE]
\* _parse_date builds datetime(..., tzinfo=timezone.utc).
AwareDate(h) == [present |-> TRUE, hour |-> h, aware |-> TRUE]

ScoreTitles ==
    { <<"O","p","e","n","A","I"," ","r","a","i","s","e","d"," ","$","1","0","0"," ","m","i","l","l","i","o","n">>, <<"A","n","t","h","r","o","p","i","c"," ","S","e","r","i","e","s"," ","C"," ","f","u","n","d","i","n","g">>,
      <<"N","v","i","d","i","a"," ","I","P","O">>, <<>>, <<"N","e","w"," ","s","e","r","i","e","s">>, <<"S","t","a","r","t","u","p"," ","r","a","i","s","e","d"," ","$","2","b">>,
      <<"L","L","M"," ","m","e","r","g","e","r"," ","a","c","q","u","i","s","i","t","i","o","n">>, <<"S","e","e","d"," ","d","e","a","l"," ","o","f"," ","6","0"," ","m","i","l","l","i","o","n"," ","d","o","l","l","a","r","s">> }
ScoreSummaries ==
    { <<>>, <<"l","e","d"," ","b","y"," ","M","i","c","r","o","s","o","f","t"," ","V","e","n","t","u","r","e","s">>, <<"v","a","l","u","e","d"," ","a","t"," ","$","1",".","5"," ","b","i","l","l","i","o","n">>,
      <<"p","r","e","-","s","e","e","d"," ","r","o","u","n","d">>, <<"v","e","n","t","u","r","e"," ","c","a","p","i","t","a","l"," ","i","n","v","e","s","t","m","e","n","t"," ","i","n"," ","m","a","c","h","i","n","e"," ","l","e","a","r","n","i","n","g">>,
      <<"C","h","a","t","G","P","T"," ","r","e","s","e","a","r","c","h"," ","p","a","p","e","r"," ","l","a","u","n","c","h">> }
ScoreContents == { <<>>, <<"a","r","t","i","f","i","c","i","a","l"," ","i","n","t","e","l","l","i","g","e","n","c","e"," ","s","t","a","r","t","u","p"," ","v","a","l","u","a","t","i","o","n">> }

NewsItem(title, summary, content, link, published_date) ==
    [title |-> title, summary |-> summary, content |-> content,
     link |-> link, published_date |-> published_date]

ScoreCall(op, news, analysis, llm, utcnow) ==
    [op |-> op, news |-> news, analysis |-> analysis, llm |-> llm, utcnow |-> utcnow]

\* The client states tried: none, a failing call, and each reply text.
Clients == {NoClient, ClientRaises} \cup {ClientReplies(d.text) : d \in JsonDocuments}

ScoreCalls ==
    LET \* The dates tried against utcnow = MaxAge: ages -1..MaxAge.
        Dates == {NoDate, AwareDate(MaxAge)} \cup {NaiveDate(h) : h \in 0..(MaxAge + 1)}
        \* Extraction records handed to _calculate_importance_score directly.
        ExtractionRecords ==
            {[BlankAnalysis EXCEPT !.funding_amount = a, !.funding_round = r,
                                   !.companies = c, !.relevance_score = s] :
                a \in {None, <<>>, <<"1","0","0">>, <<"7","5">>, <<"7",".","5">>, <<"2","b">>, <<"a","b","c">>},
                r \in {None, <<"i","p","o">>, <<"s","e","r","i","e","s"," ","c">>, <<"s","e","r","i","e","s"," ","a">>, <<"s","e","e","d">>},
                c \in {{}, { <<"O","p","e","n","a","i">> }, { <<"A","c","m","e">> }},
                s \in {0, 80, 81, 100}}
        ImportanceLevels == {10, 50, 51, 70, 71, 80, 81, 90}
    IN
    {ScoreCall("relevance", NewsItem(t, s, c, "", NoDate), BlankAnalysis, NoClient, MaxAge) :
        t \in ScoreTitles, s \in ScoreSummaries, c \in ScoreContents}
    \cup
    {ScoreCall("importance", NewsItem(t, <<>>, <<>>, "", NoDate), a, NoClient, MaxAge) :
        t \in { <<"v","a","l","u","e","d"," ","a","t"," ","$","1",".","5"," ","b","i","l","l","i","o","n">>, <<"S","e","e","d"," ","d","e","a","l">> }, a \in ExtractionRecords}
    \cup
    {ScoreCall("urgency", NewsItem(<<>>, <<>>, <<>>, "", d),
               [BlankAnalysis EXCEPT !.importance_score = i], NoClient, MaxAge) :
        d \in Dates, i \in ImportanceLevels}
    \cup
    {ScoreCall("basic", NewsItem(t, s, c, "", d), BlankAnalysis, NoClient, MaxAge) :
        t \in ScoreTitles \cup {None}, s \in ScoreSummaries, c \in ScoreContents,
        d \in {NoDate, NaiveDate(MaxAge - 1), NaiveDate(MaxAge - 3), AwareDate(MaxAge)}}
    \cup
    {ScoreCall("single", NewsItem(t, s, <<>>, "", d), BlankAnalysis, c, MaxAge) :
        t \in {None, <<>>, <<"O","p","e","n","A","I"," ","r","a","i","s","e","d"," ","$","1","0","0"," ","m","i","l","l","i","o","n">>, <<"L","L","M"," ","m","e","r","g","e","r"," ","a","c","q","u","i","s","i","t","i","o","n">>},
        s \in {<<>>, <<"v","e","n","t","u","r","e"," ","c","a","p","i","t","a","l"," ","i","n","v","e","s","t","m","e","n","t"," ","i","n"," ","m","a","c","h","i","n","e"," ","l","e","a","r","n","i","n","g">>},
        d \in {NoDate, NaiveDate(MaxAge - 1), AwareDate(MaxAge)},
        c \in Clients}
    \cup
    {ScoreCall("basic", NewsItem(<<"O","p","e","n","A","I"," ","r","a","i","s","e","d"," ","$","1","0","0"," ","m","i","l","l","i","o","n"," ","i","n"," ","S","e","r","i","e","s"," ","C"," ","f","u","n","d","i","n","g"," ","l","e","d"," ","b","y"," ","M","i","c","r","o","s","o","f","t"," ","V","e","n","t","u","r","e","s">>,
                                 <<>>, <<>>, "", d), BlankAnalysis, NoClient, MaxAge) :
        d \in {NoDate, NaiveDate(MaxAge - 1), NaiveDate(0), AwareDate(MaxAge)}}
    \cup
    {ScoreCall("categorize", NewsItem(t, <<>>, <<>>, "", NoDate), BlankAnalysis, NoClient, MaxAge) :
        t \in {<<>>, <<"H","e","l","l","o">>, <<"I","P","O"," ","s","t","o","c","k"," ","r","a","i","s","e">>, <<"M","e","r","g","e","r"," ","d","e","a","l">>, <<"D","e","a","l"," ","m","e","r","g","e","r">>,
               <<"P","a","p","e","r"," ","b","a","n">>, <<"N","e","w"," ","m","o","d","e","l">>, <<"L","a","w","s","u","i","t">>, <<"R","a","i","s","e"," ","r","o","u","n","d"," ","c","a","p","i","t","a","l"," ","l","a","u","n","c","h">>,
               <<"N","a","s","d","a","q"," ","p","u","b","l","i","c"," ","s","t","o","c","k"," ","f","u","n","d","i","n","g"," ","r","o","u","n","d">>}}
    \cup
    {ScoreCall("funding_round", NewsItem(t, <<>>, <<>>, "", NoDate), BlankAnalysis, NoClient, MaxAge) :
        t \in {<<>>, <<"N","e","w"," ","s","e","r","i","e","s">>, <<"S","e","r","i","e","s">>, <<"S","e","r","i","e","s"," ","A"," ","a","f","t","e","r"," ","s","e","e","d">>, <<"P","r","e","-","s","e","e","d"," ","r","o","u","n","d">>,
               <<"M","e","r","g","e","r"," ","b","e","f","o","r","e"," ","I","P","O">>, <<"B","r","i","d","g","e"," ","l","o","a","n">>, <<"S","e","r","i","e","s"," ","D"," ","a","c","q","u","i","s","i","t","i","o","n">>,
               <<"S","e","e","d">>, <<"S","e","r","i","e","s"," ","B"," ","a","n","d"," ","s","e","r","i","e","s"," ","C">>}}
    \cup
    {ScoreCall("ai", NewsItem(<<"N","v","i","d","i","a"," ","I","P","O">>, <<>>, <<>>, "", NoDate), BlankAnalysis, c, MaxAge) :
        c \in Clients \ {NoClient}}

NoReturn == Return("pending")

CallRelevance ==
    /\ score_pc = "called" /\ call.op = "relevance"
    /\ ret' = Return(_calculate_relevance_score(FullText(call.news)))
    /\ score_pc' = "returned"
    /\ UNCHANGED call

CallImportance ==
    /\ score_pc = "called" /\ call.op = "importance"
    /\ ret' = Return(_calculate_importance_score(call.analysis, FullText(call.news)))
    /\ score_pc' = "returned"
    /\ UNCHANGED call

CallCategorize ==
    /\ score_pc = "called" /\ call.op = "categorize"
    /\ ret' = Return(_categorize_news(FullText(call.news)))
    /\ score_pc' = "returned"
    /\ UNCHANGED call

CallFundingRound ==
    /\ score_pc = "called" /\ call.op = "funding_round"
    /\ ret' = Return(_extract_funding_round(FullText(call.news)))
    /\ score_pc' = "returned"
    /\ UNCHANGED call

CallUrgency ==
    /\ score_pc = "called" /\ call.op = "urgency"
    /\ ret' = _determine_urgency(call.analysis, call.news, call.utcnow)
    /\ score_pc' = "returned"
    /\ UNCHANGED call

CallBasicAnalysis ==
    /\ score_pc = "called" /\ call.op = "basic"
    /\ ret' = _basic_analysis(call.news, call.utcnow)
    /\ score_pc' = "returned"
    /\ UNCHANGED call

CallAnalyzeSingle ==
    /\ score_pc = "called" /\ call.op = "single"
    /\ ret' = analyze_single_news(call.news, call.llm, call.utcnow)
    /\ score_pc' = "returned"
    /\ UNCHANGED call

CallAiAnalysis ==
    /\ score_pc = "called" /\ call.op = "ai"
    /\ ret' = Return(_ai_analysis(call.news, call.llm))
    /\ score_pc' = "returned"
    /\ UNCHANGED call

(***************************************************************************)
(* C2.  For every input text _calculate_relevance_score returns a value    *)
(* in [0.0, 1.0], and for every extraction record and text                 *)
(* _calculate_importance_score returns a value in [0.0, 1.0] (here 0..100, *)
(* in hundredths); so do the two scores _basic_analysis records.           *)
(***************************************************************************)
InUnit(score) == 0 <= score /\ score <= 100

C2_ScoresInUnitInterval ==
    (score_pc = "returned" /\ ~ret.raised) =>
        /\ call.op \in {"relevance", "importance"} => InUnit(ret.value)
        /\ call.op = "basic" =>
               InUnit(ret.value.relevance_score) /\ InUnit(ret.value.importance_score)

\* C2 witness: an importance call whose four signals add up to more than
\* 1.0 and that returned 1.0.
C2_Witness ==
    /\ score_pc = "returned"
    /\ call.op = "importance"
    /\ RawImportance(call.analysis, FullText(call.news)) > 100
    /\ ret = Return(100)

(***************************************************************************)
(* C4.  _determine_urgency returns "high" for importance_score = 0.9       *)
(* whatever the published date (absent, or present with any item age),     *)
(* and "low" for importance_score = 0.1 when no date is present.           *)
(***************************************************************************)
C4_UrgencyByImportance ==
    (score_pc = "returned" /\ call.op = "urgency" /\ ~ret.raised) =>
        /\ call.analysis.importance_score = 90 => ret.value = "high"
        /\ (call.analysis.importance_score = 10 /\ ~call.news.published_date.present)
               => ret.value = "low"

(***************************************************************************)
(* C3.  The overall_score that analyze_single_news attaches to an item     *)
(* lies in [0, 1] (here 0..1000, in thousandths), whatever number the LLM  *)
(* reply carries as market_impact.                                         *)
(***************************************************************************)
C3_OverallScoreInUnitInterval ==
    (score_pc = "returned" /\ call.op = "single" /\ ~ret.raised /\ ret.value.has_analysis) =>
        /\ 0 <= ret.value.analysis.overall_score
        /\ ret.value.analysis.overall_score <= 1000

\* The reply parses to a JSON object.
RepliesObject(llm) ==
    /\ llm.configured /\ ~llm.raises
    /\ ~json_loads(llm.content).raised
    /\ json_loads(llm.content).value.type = "object"

\* The enrichment step fails: the call raises or the reply does not parse
\* to a JSON object.
EnrichmentFails(llm) == llm.configured /\ ~RepliesObject(llm)

\* Some step of the analysis of the call's item raises: local scoring,
\* enrichment, or the overall score (a market_impact that is no number).
FailsPartWay(c) ==
    \/ _basic_analysis(c.news, c.utcnow).raised
    \/ EnrichmentFails(c.llm)
    \/ /\ RepliesObject(c.llm)
       /\ "market_impact" \in json_loads(c.llm.content).value.keys
       /\ json_loads(c.llm.content).value.market_impact.type # "number"

(***************************************************************************)
(* C8.  When a step of the analysis of an item raises, analyze_single_news *)
(* still returns the item with an analysis record.                         *)
(***************************************************************************)
C8_FailedItemKeepsAnalysis ==
    (score_pc = "returned" /\ call.op = "single" /\ FailsPartWay(call)) =>
        ~ret.raised /\ ret.value.has_analysis

LocalFields(analysis) ==
    <<analysis.relevance_score, analysis.importance_score, analysis.category,
      analysis.urgency, analysis.funding_amount, analysis.funding_round,
      analysis.companies, analysis.overall_score>>

(***************************************************************************)
(* C9.  When the enrichment fails (the LLM call raises, or the reply does  *)
(* not parse to a JSON object), analyze_single_news returns what it        *)
(* returns for the same item without an LLM client, as far as relevance,   *)
(* importance, category, urgency, the extraction fields and overall_score  *)
(* go.                                                                     *)
(***************************************************************************)
C9_EnrichmentFailureFallsBack ==
    (score_pc = "returned" /\ call.op = "single" /\ EnrichmentFails(call.llm)) =>
        \A local \in {analyze_single_news(call.news, NoClient, call.utcnow)} :
            /\ ret.raised = local.raised
            /\ ~ret.raised =>
                  /\ ret.value.news = call.news
                  /\ ret.value.has_analysis = local.value.has_analysis
                  /\ LocalFields(ret.value.analysis) = LocalFields(local.value.analysis)

\* C9 witness: a reply that is no JSON was kept as ai_summary of an analyzed
\* item whose overall score is above the market-impact default's share.
C9_Witness ==
    /\ score_pc = "returned" /\ call.op = "single"
    /\ call.llm.configured /\ ~call.llm.raises
    /\ json_loads(call.llm.content) = Raise("JSONDecodeError")
    /\ ~ret.raised /\ ret.value.has_analysis
    /\ ret.value.analysis.ai_keys = {"ai_summary"}
    /\ ret.value.analysis.overall_score > 180

(***************************************************************************)
(* C18.  overall_score = 0.3 * relevance_score + 0.4 * importance_score    *)
(* + 0.3 * (market_impact / 5), market_impact being 3 when no enrichment   *)
(* is available (no LLM client, the call failed, or the reply is not       *)
(* parseable as JSON): a locally analyzed item scores                      *)
(* 0.3 * relevance + 0.4 * importance + 0.18.  Scores are in hundredths,   *)
(* market_impact in tenths and overall_score in thousandths.               *)
(***************************************************************************)
C18_OverallScoreFormula ==
    (score_pc = "returned" /\ call.op = "single" /\ ~ret.raised /\ ret.value.has_analysis) =>
        LET analysis == ret.value.analysis
            enriched == "market_impact" \in analysis.ai_keys
            no_enrichment ==
                \/ ~call.llm.configured
                \/ call.llm.raises
                \/ json_loads(call.llm.content).raised
        IN  /\ enriched =>
                   analysis.overall_score =
                       3 * analysis.relevance_score + 4 * analysis.importance_score
                           + 6 * analysis.market_impact.tenths
            /\ ~enriched =>
                   analysis.overall_score =
                       3 * analysis.relevance_score + 4 * analysis.importance_score + 180
            /\ no_enrichment => ~enriched

\* C18 witness: an item analyzed without an LLM client, with a relevance
\* and an importance above zero, has been returned with its overall score.
C18_Witness ==
    /\ score_pc = "returned" /\ call.op = "single"
    /\ ~call.llm.configured
    /\ ~ret.raised /\ ret.value.has_analysis
    /\ ret.value.analysis.relevance_score > 0
    /\ ret.value.analysis.importance_score > 0
    /\ ret.value.analysis.overall_score > 180

(***************************************************************************)
(* C10.  When the reply text does not parse to a JSON object, _ai_analysis *)
(* returns the first 200 characters of the reply as ai_summary and no      *)
(* other enrichment field.                                                 *)
(***************************************************************************)
C10_UnparseableReplyKeptAsSummary ==
    (/\ score_pc = "returned" /\ call.op = "ai"
     /\ ~call.llm.raises /\ call.llm.content # None
     /\ EnrichmentFails(call.llm)) =>
        /\ ret.value.keys = {"ai_summary"}
        /\ ret.value.ai_summary = SubSeq(call.llm.content, 1, Min(Len(call.llm.content), 200))

(***************************************************************************)
(* NewsAnalyzer.analyze_news_batch (lines 31-53).  The tasks of one group  *)
(* run under asyncio.gather and may finish in any order; gather hands      *)
(* back their results in task order.                                       *)
(***************************************************************************)
\* Line 36.
batch_size == 5

\* Bound: the longest list handed to analyze_news_batch.
MaxBatch == 7

\* Line 41 with return_exceptions dropped: the first exception propagates.
GatherRaising(task_results) ==
    IF \E k \in 1..Len(task_results) : task_results[k].raised
    THEN LET first == Least({k \in 1..Len(task_results) : task_results[k].raised})
         IN  Raise(task_results[first].value)
    ELSE Return(task_results)

\* Line 41: asyncio.gather with return_exceptions=True returns the
\* list of results, an exception standing where its task raised.
Gather(task_results) == Return(task_results)

\* What `if result:` lets through: a dict with at least one key, which
\* every item here is.
Truthy(result) == DOMAIN result # {}

\* A mutant that appends the results of a group last task first.
AppendResultsReversed(analyzed, task_results, k) ==
    LET RECURSIVE back(_, _)
        back(list, j) ==
            IF j < k THEN list
            ELSE IF task_results[j].raised \/ DOMAIN task_results[j].value = {}
                 THEN back(list, j - 1)
            ELSE back(Append(list, task_results[j].value), j - 1)
    IN  back(analyzed, Len(task_results))

\* Lines 43-48: the loop over the results, from position k on.
RECURSIVE AppendResults(_, _, _)
AppendResults(analyzed, task_results, k) ==
    IF k > Len(task_results) THEN analyzed
    ELSE IF task_results[k].raised THEN AppendResults(analyzed, task_results, k + 1)
    ELSE IF Truthy(task_results[k].value)
         THEN AppendResults(Append(analyzed, task_results[k].value), task_results, k + 1)
    ELSE AppendResults(analyzed, task_results, k + 1)

\* A mutant without groups: one task per item left in the list.
BatchStartAllAtOnce ==
    /\ batch_pc = "loop"
    /\ group_start < Len(news_list)
    /\ results' = [k \in 1..(Len(news_list) - group_start) |-> NoReturn]
    /\ task_done' = {}
    /\ batch_pc' = "gather"
    /\ UNCHANGED <<news_list, batch_llm, analyzed_news, group_start>>

\* Lines 37-40: the next group is sliced off and one task per item created.
BatchStartGroup ==
    /\ batch_pc = "loop"
    /\ group_start < Len(news_list)
    /\ results' = [k \in 1..Min(batch_size, Len(news_list) - group_start) |-> NoReturn]
    /\ task_done' = {}
    /\ batch_pc' = "gather"
    /\ UNCHANGED <<news_list, batch_llm, analyzed_news, group_start>>

\* One task of the group runs analyze_single_news to its end.  With a
\* client each task waits for its reply and the tasks finish in any order;
\* without one no task ever yields and they finish in list order.
BatchTaskCompletes ==
    /\ batch_pc = "gather"
    /\ \E k \in (1..Len(results)) \ task_done :
          /\ batch_llm.configured \/ k = Least((1..Len(results)) \ task_done)
          /\ results' = [results EXCEPT ![k] =
                            analyze_single_news(news_list[group_start + k], batch_llm, MaxAge)]
          /\ task_done' = task_done \cup {k}
    /\ UNCHANGED <<news_list, batch_llm, analyzed_news, group_start, batch_pc>>

\* Lines 41-48: gather returns once every task has finished and the
\* results are appended.
BatchCollect ==
    /\ batch_pc = "gather"
    /\ task_done = 1..Len(results)
    /\ \E gathered \in {Gather(results)} :
          IF gathered.raised
          THEN /\ batch_pc' = "raised"
               /\ UNCHANGED <<analyzed_news, group_start>>
          ELSE /\ analyzed_news' = AppendResults(analyzed_news, gathered.value, 1)
               /\ group_start' = group_start
               /\ batch_pc' = "sleep"
    /\ UNCHANGED <<news_list, batch_llm, results, task_done>>

\* Line 51: await asyncio.sleep(1), then the next round of the loop.
BatchPause ==
    /\ batch_pc = "sleep"
    /\ group_start' = group_start + batch_size
    /\ batch_pc' = "loop"
    /\ UNCHANGED <<news_list, batch_llm, analyzed_news, results, task_done>>

\* Line 53.
BatchReturn ==
    /\ batch_pc = "loop"
    /\ group_start >= Len(news_list)
    /\ batch_pc' = "returned"
    /\ UNCHANGED <<news_list, batch_llm, analyzed_news, group_start, results, task_done>>

\* The results of the tasks that did not raise, in list order.
RECURSIVE ReturnedBy(_, _, _)
ReturnedBy(items, llm, k) ==
    IF k > Len(items) THEN <<>>
    ELSE \* one evaluation per item
         CHOOSE s \in {(IF r.raised THEN <<>> ELSE <<r.value>>) \o ReturnedBy(items, llm, k + 1) :
                          r \in {analyze_single_news(items[k], llm, MaxAge)}} : TRUE

(***************************************************************************)
(* C21.  analyze_news_batch on the empty list returns the empty list       *)
(* without error; for any input the list built keeps the input order       *)
(* (the results of a group precede those of the next group, and within a   *)
(* group follow input order) whatever the order in which the tasks         *)
(* complete, with at most one result per input item.                       *)
(***************************************************************************)
\* The items of list a are items of list b at increasing positions.
InOrderWithin(a, b) ==
    LET RECURSIVE match(_, _)
        match(i, j) ==
            IF i > Len(a) THEN TRUE
            ELSE IF j > Len(b) THEN FALSE
            ELSE IF a[i].news = b[j] THEN match(i + 1, j + 1)
            ELSE match(i, j + 1)
    IN  match(1, 1)

C21_BatchKeepsInputOrder ==
    /\ batch_pc # "raised"
    /\ InOrderWithin(analyzed_news, news_list)
    /\ batch_pc = "gather" =>
           InOrderWithin(analyzed_news, SubSeq(news_list, 1, group_start))
    /\ (batch_pc = "returned" /\ news_list = <<>>) => analyzed_news = <<>>

\* C21 witness: in the second group the second task has completed before
\* the first, the results of the first group being in the list.
C21_Witness ==
    /\ batch_pc = "gather"
    /\ group_start = batch_size
    /\ analyzed_news # <<>>
    /\ task_done # {} /\ 1 \notin task_done

(***************************************************************************)
(* C26.  One call of analyze_news_batch has at most batch_size = 5 tasks   *)
(* of analyze_single_news in flight, all of one group; the tasks of a      *)
(* group are created only when every task of the groups before has         *)
(* finished and the pause after the previous group is over.                *)
(***************************************************************************)
C26_GroupsOfFive ==
    /\ [](/\ Len(results) <= batch_size
          /\ Cardinality((1..Len(results)) \ task_done) <= batch_size
          /\ batch_pc = "gather" =>
                 /\ group_start % batch_size = 0
                 /\ group_start + Len(results) <= Len(news_list))
    /\ [][/\ Len(results') # Len(results) \/ (batch_pc' = "gather" /\ batch_pc # "gather") =>
                 /\ batch_pc = "loop"
                 /\ task_done = 1..Len(results)
          /\ (batch_pc' = "loop" /\ batch_pc # "loop") => batch_pc = "sleep"
          /\ (batch_pc' = "sleep" /\ batch_pc # "sleep") =>
                 /\ batch_pc = "gather"
                 /\ task_done = 1..Len(results)
          /\ group_start' # group_start =>
                 /\ batch_pc = "sleep"
                 /\ group_start' = group_start + batch_size]_vars

\* C26 witness: the tasks of the second group have just been created, the
\* five of the first group having finished, with a client whose calls are
\* awaited.
C26_Witness ==
    /\ batch_pc = "gather"
    /\ batch_llm.configured
    /\ group_start = batch_size
    /\ Len(results) = Len(news_list) - batch_size
    /\ Len(results) > 1
    /\ task_done = {}
    /\ analyzed_news # <<>>

(***************************************************************************)
(* C7.  analyze_news_batch never raises, and the list it returns holds, in *)
(* order, the result of every item whose own task did not raise: a task    *)
(* that raises removes neither the other items of its group nor the items  *)
(* of later groups.                                                        *)
(***************************************************************************)
C7_FailedTaskDoesNotAbortSiblings ==
    /\ batch_pc # "raised"
    /\ batch_pc = "returned" => analyzed_news = ReturnedBy(news_list, batch_llm, 1)

\* C7 witness: a batch of two groups returned; the first task of the first
\* group raised, and the list holds analyzed items of both groups.
C7_Witness ==
    /\ batch_pc = "returned"
    /\ Len(news_list) > batch_size
    /\ news_list[1].title = None
    /\ news_list[2].title # None /\ news_list[batch_size + 1].title # None
    /\ Len(analyzed_news) = Len(news_list) - 1
    /\ analyzed_news[1].news = news_list[2] /\ analyzed_news[1].has_analysis
    /\ analyzed_news[batch_size].news = news_list[batch_size + 1]
    /\ analyzed_news[batch_size].has_analysis

(***************************************************************************)
(* The fetch-analyze-persist cycle: fetch_and_analyze_news_task and        *)
(* update_trending_topics (src/main.py:303-414), started at startup, by    *)
(* the scheduler (src/utils/scheduler.py) and by two endpoints.            *)
(***************************************************************************)
\* settings.MAX_NEWS_PER_FETCH (src/config/settings.py:73)
MAX_NEWS_PER_FETCH == 50

\* NewsFetcher.fetch_all_news (src/scraper/news_fetcher.py:28-49) on the
\* items its sources delivered: de-duplicate, sort by published date with
\* the latest first, truncate.  The sort key of an item without a date is
\* datetime.min; the sort is stable; comparing a timezone-aware date with
\* a naive one (datetime.min included) raises.
fetch_all_news(delivered) ==
    LET unique == _deduplicate_news(delivered)
        aware == {i \in 1..Len(unique) : unique[i].published_date.aware}
        key(news) == IF news.published_date.present THEN news.published_date.hour ELSE -1
        \* the place of item i in the stable descending order
        place(i) ==
            1 + Cardinality({j \in 1..Len(unique) :
                                \/ key(unique[j]) > key(unique[i])
                                \/ key(unique[j]) = key(unique[i]) /\ j < i})
        sorted == [p \in 1..Len(unique) |->
                      unique[CHOOSE i \in 1..Len(unique) : place(i) = p]]
    IN  IF aware # {} /\ aware # 1..Len(unique) THEN Raise("TypeError")
        ELSE Return(Prefix(sorted, MAX_NEWS_PER_FETCH))

\* What analyze_news_batch returns (lines 31-53): the results of its
\* groups, appended group by group.
analyze_news_batch(items, llm) ==
    LET RECURSIVE from(_, _)
        from(analyzed, i) ==
            IF i >= Len(items) THEN analyzed
            ELSE from(AppendResults(analyzed,
                          [k \in 1..Min(batch_size, Len(items) - i) |->
                              analyze_single_news(items[i + k], llm, MaxAge)], 1),
                      i + batch_size)
    IN  from(<<>>, 0)

(***************************************************************************)
(* NewsAnalyzer.get_trending_topics (lines 366-400).  A topic is named by  *)
(* a company's name or by <<"category_", category>>.  The topics counted   *)
(* at least twice are returned, highest count first, at most ten; topics   *)
(* of equal count keep the order in which the dict received them: by the   *)
(* first item that contributes, an item's companies before its category.   *)
(***************************************************************************)
\* A mutant threshold: one occurrence is enough.
QualifiesOnce(count) == count >= 1

\* Line 393: if data['count'] >= 2
Qualifies(count) == count >= 2

get_trending_topics(items) ==
    LET companies(news) == IF news.has_analysis THEN news.analysis.companies ELSE {}
        category_key(news) ==
            <<"category_", IF news.has_analysis THEN news.analysis.category ELSE "general">>
        contributors(t) ==
            {i \in 1..Len(items) : t \in companies(items[i]) \/ t = category_key(items[i])}
        count(t) == Cardinality(contributors(t))
        is_category(t) == Len(t) > 0 /\ t[1] = "category_"
        earlier(t, u) ==
            \/ count(t) > count(u)
            \/ /\ count(t) = count(u)
               /\ \/ Least(contributors(t)) < Least(contributors(u))
                  \/ /\ Least(contributors(t)) = Least(contributors(u))
                     /\ ~is_category(t) /\ is_category(u)
        \* data['latest_news'][:3]: the first three items appended
        latest_news(t) ==
            LET nth(k) == CHOOSE i \in contributors(t) :
                              Cardinality({j \in contributors(t) : j < i}) = k - 1
            IN  [k \in 1..Min(3, count(t)) |-> items[nth(k)]]
        RECURSIVE ordered(_)
        ordered(left) ==
            IF left = {} THEN <<>>
            ELSE LET t == CHOOSE x \in left : \A y \in left : ~earlier(y, x)
                 IN  <<[topic |-> t, count |-> count(t),
                        category |-> IF is_category(t) THEN "topic" ELSE "company",
                        latest_news |-> latest_news(t)]>>
                     \o ordered(left \ {t})
    IN  Prefix(ordered({t \in UNION {companies(items[i]) \cup {category_key(items[i])} :
                                        i \in 1..Len(items)} : Qualifies(count(t))}), 10)

\* Bound: the length of the lists handed to get_trending_topics.
MaxTrend == 4

\* get_trending_topics called on a list of analyzed items.
GetTrendingTopics ==
    /\ batch_pc = "analyzed"
    /\ ret' = Return(get_trending_topics(analyzed_news))
    /\ batch_pc' = "counted"
    /\ UNCHANGED <<call, score_pc, news_list, batch_llm, analyzed_news,
                   group_start, results, task_done>>

(***************************************************************************)
(* C19.  get_trending_topics returns exactly the topics (company names and *)
(* the keys "category_<category>") whose count is at least 2, a topic's    *)
(* count being the number of items of the list that contribute to it,      *)
(* sorted by count descending and truncated to the 10 highest counts.      *)
(***************************************************************************)
\* The topics item i of the list contributes to.
TopicsOf(i) ==
    IF analyzed_news[i].has_analysis
    THEN analyzed_news[i].analysis.companies
             \cup {<<"category_", analyzed_news[i].analysis.category>>}
    ELSE {<<"category_", "general">>}

\* The positions of the items that contribute to topic t.
Contributors(t) == {i \in 1..Len(analyzed_news) : t \in TopicsOf(i)}

C19_TrendingTopics ==
    batch_pc = "counted" =>
        LET trending == ret.value
            qualifying == {t \in UNION {TopicsOf(i) : i \in 1..Len(analyzed_news)} :
                              Cardinality(Contributors(t)) >= 2}
            returned == {trending[k].topic : k \in 1..Len(trending)}
        IN  /\ ~ret.raised
            /\ returned \subseteq qualifying
            /\ Cardinality(returned) = Len(trending)
            /\ Len(trending) = Min(Cardinality(qualifying), 10)
            /\ \A k \in 1..Len(trending) :
                   trending[k].count = Cardinality(Contributors(trending[k].topic))
            /\ \A j, k \in 1..Len(trending) :
                   j < k => trending[j].count >= trending[k].count
            /\ \A t \in qualifying \ returned :
                   \A k \in 1..Len(trending) :
                       trending[k].count >= Cardinality(Contributors(t))

\* C19 witness: a company mentioned by three items is returned with count 3
\* while a company mentioned by one item only is left out.
C19_Witness ==
    /\ batch_pc = "counted"
    /\ \E k \in 1..Len(ret.value) :
           /\ ret.value[k].category = "company"
           /\ ret.value[k].count = 3
    /\ \E i \in 1..Len(analyzed_news) :
           \E t \in TopicsOf(i) :
               /\ Contributors(t) = {i}
               /\ \A k \in 1..Len(ret.value) : ret.value[k].topic # t

(***************************************************************************)
(* C20.  As stated: each topic returned by get_trending_topics carries at  *)
(* most 3 contributing items, and they are the most recent by published    *)
(* date of the items that contributed to the topic, for any order of the   *)
(* input list.                                                             *)
(***************************************************************************)
C20_LatestNewsMostRecent ==
    batch_pc = "counted" =>
        \A k \in 1..Len(ret.value) :
            LET latest == ret.value[k].latest_news
                all == Contributors(ret.value[k].topic)
                hour(i) == analyzed_news[i].news.published_date.hour
            IN  /\ Len(latest) <= 3
                /\ \E kept \in SUBSET all :
                       /\ Cardinality(kept) = Min(3, Cardinality(all))
                       /\ {latest[n] : n \in 1..Len(latest)} = {analyzed_news[i] : i \in kept}
                       /\ \A i \in kept : \A j \in all \ kept : hour(i) >= hour(j)


\* Bound: the cycles started in one run, the one at startup included.
MaxStarts == 3

\* Bound: the cycle tasks that can be in flight at once.
MaxInFlight == 2

Cycles == 1..MaxInFlight

\* What the sources deliver to one fetch.  The scraper dates every item
\* with a timezone-aware datetime (_parse_date); the article behind
\* https://a changes its title between fetches.
Feeds ==
    LET a1 == NewsItem(<<"A","I">>, <<>>, <<>>, "https://a", AwareDate(MaxAge))
        a2 == NewsItem(<<"G","P","T">>, <<>>, <<>>, "https://a", AwareDate(MaxAge))
        b == NewsItem(<<"I","P","O">>, <<>>, <<>>, "https://b", AwareDate(MaxAge))
        c == NewsItem(<<"L","L","M">>, <<>>, <<>>, "https://c", AwareDate(MaxAge))
        d == NewsItem(<<"V","C">>, <<>>, <<>>, "https://d", AwareDate(MaxAge))
    IN  {<<>>, <<a1>>, <<a2, b>>, <<a1, a2, b>>, <<c, d>>, <<a1, c, d>>}

\* A task slot in which no cycle runs; rolled_back tells that the task
\* that ran in it last ended in the handler of a failed commit.
NoCycle ==
    [pc |-> "idle", seq |-> 0, news_list |-> <<>>,
     analyzed_news |-> <<>>, pos |-> 0, added |-> <<>>, trending |-> <<>>,
     topic_pos |-> 0, topic_adds |-> <<>>, topic_updates |-> {},
     rolled_back |-> FALSE]

\* A task that has just entered fetch_and_analyze_news_task.
NewCycle(seq) == [NoCycle EXCEPT !.pc = "fetch", !.seq = seq]

\* src/main.py:331-350: the NewsArticle row built from one analyzed item.
Article(news_data) ==
    [link |-> news_data.news.link,
     title |-> news_data.news.title,
     overall_score |-> IF news_data.has_analysis THEN news_data.analysis.overall_score ELSE 0,
     category |-> IF news_data.has_analysis THEN news_data.analysis.category ELSE "general",
     urgency |-> IF news_data.has_analysis THEN news_data.analysis.urgency ELSE "low"]

\* A store without the unique constraint on link.
NoUniqueConstraint(stored, added) == FALSE

\* src/database/models.py:13, link is unique: the INSERTs of a commit fail
\* when a new row repeats a stored link or another new row's link.
IntegrityError(stored, added) ==
    \/ \E i \in 1..Len(added), j \in 1..Len(stored) : added[i].link = stored[j].link
    \/ \E i, j \in 1..Len(added) : i # j /\ added[i].link = added[j].link

\* A mutant rollback: the rows of the failed batch that repeat no stored
\* link stay in the table.
RollbackKeepsAccepted(stored, added) ==
    stored \o SelectSeq(added, LAMBDA row :
                  \A j \in 1..Len(stored) : stored[j].link # row.link)

\* src/main.py:379, db.rollback() after the failed commit: the INSERTs of
\* the batch ran in one transaction, none of its rows is in the table.
Rollback(stored, added) == stored

\* The slot the next task takes.
FreeSlot == Least({c \in Cycles : cycle[c].pc = "idle"})
CanStart == started < MaxStarts /\ \E c \in Cycles : cycle[c].pc = "idle"

\* startup_event, src/main.py:416-437, after the initial cycle:
\* NewsScheduler.start() (scheduler.py:17-36).
SchedulerStart ==
    /\ app_pc = "starting"
    /\ \A c \in Cycles : cycle[c].pc = "idle"
    /\ IF is_running
       THEN /\ warnings' = warnings + 1
            /\ UNCHANGED <<is_running, fetch_jobs, cleanup_jobs, scheduler_tasks>>
       ELSE /\ fetch_jobs' = fetch_jobs + 1
            /\ cleanup_jobs' = cleanup_jobs + 2
            /\ is_running' = TRUE
            /\ scheduler_tasks' = scheduler_tasks + 1
            /\ UNCHANGED warnings
    /\ app_pc' = "serving"
    /\ UNCHANGED <<articles, topics, cycle, started>>

\* Bound: the calls of start() on the scheduler that is already running.
MaxStartCalls == 2

\* A mutant start(): the running flag is not looked at.
SchedulerStartUnguarded ==
    /\ app_pc = "serving"
    /\ warnings < MaxStartCalls
    /\ fetch_jobs' = fetch_jobs + 1
    /\ cleanup_jobs' = cleanup_jobs + 2
    /\ is_running' = TRUE
    /\ scheduler_tasks' = scheduler_tasks + 1
    /\ warnings' = warnings + 1
    /\ UNCHANGED <<articles, topics, cycle, started, app_pc>>

\* NewsScheduler.start() (scheduler.py:17-36) called on the scheduler of
\* the running service.
SchedulerStartAgain ==
    /\ app_pc = "serving"
    /\ warnings < MaxStartCalls
    /\ IF is_running
       THEN /\ warnings' = warnings + 1
            /\ UNCHANGED <<is_running, fetch_jobs, cleanup_jobs, scheduler_tasks>>
       ELSE /\ fetch_jobs' = fetch_jobs + 1
            /\ cleanup_jobs' = cleanup_jobs + 2
            /\ is_running' = TRUE
            /\ scheduler_tasks' = scheduler_tasks + 1
            /\ UNCHANGED warnings
    /\ UNCHANGED <<articles, topics, cycle, started, app_pc>>

\* _run_scheduler and run_pending (scheduler.py:46-54): a cleanup job is
\* due and a task for _async_cleanup_trending or _async_cleanup_news is
\* created (lines 69-71, 93-95).  The task fails at `async with
\* get_async_session()`, an async generator and no context manager; its
\* handler logs the error and no row is deleted.
SchedulerCleanup ==
    /\ is_running /\ scheduler_tasks > 0 /\ cleanup_jobs > 0
    /\ UNCHANGED cycleVars

\* _run_scheduler, run_pending and _schedule_fetch (scheduler.py:46-58):
\* the fetch job is due and a task for _async_fetch is created.
SchedulerTick ==
    /\ is_running /\ scheduler_tasks > 0 /\ fetch_jobs > 0
    /\ CanStart
    /\ cycle' = [cycle EXCEPT ![FreeSlot] = NewCycle(started + 1)]
    /\ started' = started + 1
    /\ UNCHANGED <<articles, topics, is_running, fetch_jobs, cleanup_jobs, scheduler_tasks, warnings, app_pc>>

\* POST /api/refresh (src/main.py:230-234): the cycle runs as a background
\* task.
RefreshNews ==
    /\ app_pc = "serving"
    /\ CanStart
    /\ cycle' = [cycle EXCEPT ![FreeSlot] = NewCycle(started + 1)]
    /\ started' = started + 1
    /\ UNCHANGED <<articles, topics, is_running, fetch_jobs, cleanup_jobs, scheduler_tasks, warnings, app_pc>>

\* POST /api/trigger-update (src/main.py:290-298): the handler awaits the
\* cycle.
TriggerNewsUpdate ==
    /\ app_pc = "serving"
    /\ CanStart
    /\ cycle' = [cycle EXCEPT ![FreeSlot] = NewCycle(started + 1)]
    /\ started' = started + 1
    /\ UNCHANGED <<articles, topics, is_running, fetch_jobs, cleanup_jobs, scheduler_tasks, warnings, app_pc>>

\* A mutant stop(): it logs and cancels nothing.
ShutdownCancelsNothing ==
    /\ app_pc = "serving"
    /\ app_pc' = "stopped"
    /\ UNCHANGED <<articles, topics, cycle, started, is_running, fetch_jobs,
                   cleanup_jobs, scheduler_tasks, warnings>>

\* shutdown_event (src/main.py:439-447): NewsScheduler.stop()
\* (scheduler.py:38-44) clears the flag, cancels the _run_scheduler task
\* and clears the jobs; the tasks of the cycles are not touched.
Shutdown ==
    /\ app_pc = "serving"
    /\ is_running' = FALSE
    /\ scheduler_tasks' = 0
    /\ fetch_jobs' = 0
    /\ cleanup_jobs' = 0
    /\ app_pc' = "stopped"
    /\ UNCHANGED <<articles, topics, cycle, started, warnings>>

\* Lines 317-319 and update_trending_topics, lines 384-385: what
\* analyze_news_batch returns for a list fetch_all_news can deliver, and
\* what get_trending_topics returns for that result; the settings carry no
\* API key.  Both are functions of the list and are worked out once.
Analyses ==
    [items \in {fetched.value : fetched \in {f \in {fetch_all_news(delivered) : delivered \in Feeds} :
                                                ~f.raised}} |->
        LET analyzed == analyze_news_batch(items, NoClient)
        IN  [analyzed_news |-> analyzed,
             trending_topics |-> get_trending_topics(analyzed)]]

\* Lines 310-315: fetch_all_news returns.  An exception goes to the
\* handler at lines 377-379, an empty list ends the cycle.
CycleFetch(c) ==
    /\ cycle[c].pc = "fetch"
    /\ \E delivered \in Feeds :
          \E fetched \in {fetch_all_news(delivered)} :
             IF fetched.raised \/ fetched.value = <<>>
             THEN cycle' = [cycle EXCEPT ![c] = NoCycle]
             ELSE cycle' = [cycle EXCEPT ![c].news_list = fetched.value, ![c].pc = "analyze"]
    /\ UNCHANGED <<articles, topics, is_running, fetch_jobs, cleanup_jobs, scheduler_tasks, warnings, app_pc, started>>

\* Lines 317-319: analyze_news_batch returns; settings carry no API key.
CycleAnalyze(c) ==
    /\ cycle[c].pc = "analyze"
    /\ \E analyzed \in {Analyses[cycle[c].news_list].analyzed_news} :
          cycle' = [cycle EXCEPT ![c].analyzed_news = analyzed,
                                 ![c].pos = 1,
                                 ![c].pc = IF analyzed = <<>> THEN "commit" ELSE "persist"]
    /\ UNCHANGED <<articles, topics, is_running, fetch_jobs, cleanup_jobs, scheduler_tasks, warnings, app_pc, started>>

\* Lines 323-356, one round of the loop: the SELECT by link returns, and
\* the item is skipped or its row added to the session.  The session does
\* not autoflush, so the SELECT sees committed rows only.
CyclePersistItem(c) ==
    /\ cycle[c].pc = "persist"
    /\ LET news_data == cycle[c].analyzed_news[cycle[c].pos]
           existing_article ==
               \E i \in 1..Len(articles) : articles[i].link = news_data.news.link
       IN  cycle' = [cycle EXCEPT
               ![c].added = IF existing_article THEN @ ELSE Append(@, Article(news_data)),
               ![c].pos = @ + 1,
               ![c].pc = IF cycle[c].pos = Len(cycle[c].analyzed_news) THEN "commit"
                         ELSE "persist"]
    /\ UNCHANGED <<articles, topics, is_running, fetch_jobs, cleanup_jobs, scheduler_tasks, warnings, app_pc, started>>

\* Line 362: db.commit().  On an IntegrityError the handler at lines
\* 377-379 rolls the session back and the cycle ends.  Otherwise line 365
\* runs get_trending_topics on analyzed_news, the analysis of news_list,
\* up to its first SELECT.
CycleCommit(c) ==
    /\ cycle[c].pc = "commit"
    /\ IF IntegrityError(articles, cycle[c].added)
       THEN /\ cycle' = [cycle EXCEPT ![c] = [NoCycle EXCEPT !.rolled_back = TRUE]]
            /\ articles' = Rollback(articles, cycle[c].added)
       ELSE /\ articles' = articles \o cycle[c].added
            /\ \E trending \in {Analyses[cycle[c].news_list].trending_topics} :
                  cycle' = [cycle EXCEPT ![c].added = <<>>,
                                         ![c].trending = trending,
                                         ![c].topic_pos = 1,
                                         ![c].pc = IF trending = <<>> THEN "topics_commit"
                                                   ELSE "topics"]
    /\ UNCHANGED <<topics, is_running, fetch_jobs, cleanup_jobs, scheduler_tasks, warnings, app_pc, started>>

\* update_trending_topics, lines 387-407, one round of the loop: the
\* SELECT by topic returns.  scalar_one_or_none raises on several rows;
\* the handler at lines 412-414 rolls back and the function returns.
CycleTopic(c) ==
    /\ cycle[c].pc = "topics"
    /\ LET topic_data == cycle[c].trending[cycle[c].topic_pos]
           rows == {i \in 1..Len(topics) : topics[i].topic = topic_data.topic}
           last == cycle[c].topic_pos = Len(cycle[c].trending)
       IN  IF Cardinality(rows) > 1
           THEN cycle' = [cycle EXCEPT ![c].topic_adds = <<>>, ![c].topic_updates = {},
                                       ![c].pc = "broadcast"]
           ELSE cycle' = [cycle EXCEPT
                   ![c].topic_updates =
                       IF rows = {} THEN @
                       ELSE @ \cup {[row |-> i, count |-> topic_data.count] : i \in rows},
                   ![c].topic_adds =
                       IF rows # {} THEN @
                       ELSE Append(@, [topic |-> topic_data.topic,
                                       category |-> topic_data.category,
                                       count |-> topic_data.count,
                                       latest_mention |-> cycle[c].seq]),
                   ![c].topic_pos = @ + 1,
                   ![c].pc = IF last THEN "topics_commit" ELSE "topics"]
    /\ UNCHANGED <<articles, topics, is_running, fetch_jobs, cleanup_jobs, scheduler_tasks, warnings, app_pc, started>>

\* update_trending_topics, line 409: db.commit() writes the changed counts
\* and the new topics.
CycleTopicsCommit(c) ==
    /\ cycle[c].pc = "topics_commit"
    /\ topics' =
          [i \in 1..Len(topics) |->
              IF \E u \in cycle[c].topic_updates : u.row = i
              THEN [topics[i] EXCEPT
                       !.count = (CHOOSE u \in cycle[c].topic_updates : u.row = i).count,
                       !.latest_mention = cycle[c].seq]
              ELSE topics[i]]
          \o cycle[c].topic_adds
    /\ cycle' = [cycle EXCEPT ![c].topic_adds = <<>>, ![c].topic_updates = {},
                              ![c].pc = "broadcast"]
    /\ UNCHANGED <<articles, is_running, fetch_jobs, cleanup_jobs, scheduler_tasks, warnings, app_pc, started>>

\* Lines 367-375: the update message is broadcast and the task ends.
CycleBroadcast(c) ==
    /\ cycle[c].pc = "broadcast"
    /\ cycle' = [cycle EXCEPT ![c] = NoCycle]
    /\ UNCHANGED <<articles, topics, is_running, fetch_jobs, cleanup_jobs, scheduler_tasks, warnings, app_pc, started>>

\* The link of every stored article is its own.
UniqueLinks ==
    \A i, j \in 1..Len(articles) : articles[i].link = articles[j].link => i = j

\* No step changes or removes a stored article.
ArticlesKept ==
    /\ Len(articles') >= Len(articles)
    /\ \A i \in 1..Len(articles) : articles'[i] = articles[i]

(***************************************************************************)
(* C5.  After any sequence of cycles, overlapping ones included, the store *)
(* holds at most one article per link, and no step of a cycle changes or   *)
(* removes an article already stored.                                      *)
(***************************************************************************)
C5_OneArticlePerLink == []UniqueLinks /\ [][ArticlesKept]_vars

\* C5 witness: a cycle has gone through its items and is about to commit;
\* one of them carries a stored link under another title and was skipped.
C5_Witness ==
    \E c \in Cycles :
        /\ cycle[c].pc = "commit"
        /\ \E k \in 1..Len(cycle[c].analyzed_news), i \in 1..Len(articles) :
              /\ articles[i].link = cycle[c].analyzed_news[k].news.link
              /\ articles[i].title # cycle[c].analyzed_news[k].news.title
              /\ \A a \in 1..Len(cycle[c].added) :
                    cycle[c].added[a].link # articles[i].link
        /\ cycle[c].added # <<>>

(***************************************************************************)
(* C23.  When the commit of a cycle's batch of articles fails, the cycle   *)
(* rolls back: the step leaves the stored articles and the stored trending *)
(* topics exactly as they were, the task ends there (it does not go on to  *)
(* the trending topics) and keeps no pending row.                          *)
(***************************************************************************)
C23_FailedCommitRollsBack ==
    [][\A c \in Cycles :
          (/\ cycle[c].pc = "commit"
           /\ cycle'[c] # cycle[c]
           /\ \E a \in 1..Len(cycle[c].added), i \in 1..Len(articles) :
                 cycle[c].added[a].link = articles[i].link) =>
              /\ articles' = articles
              /\ topics' = topics
              /\ cycle'[c] = [NoCycle EXCEPT !.rolled_back = TRUE]]_vars

\* C23 witness: a cycle has ended in the rollback of a batch that held a row
\* with a new link next to the row that failed; that link is not stored,
\* and topics written by an earlier cycle are.
C23_Witness ==
    \E c \in Cycles :
        /\ cycle[c].rolled_back
        /\ \E i \in 1..Len(articles) : articles[i].link = "https://a"
        /\ \A i \in 1..Len(articles) : articles[i].link # "https://b"
        /\ topics # <<>>

C28_StartIsGuarded ==
    /\ [](is_running => (scheduler_tasks = 1 /\ fetch_jobs = 1 /\ cleanup_jobs = 2))
    /\ [][warnings' # warnings =>
              UNCHANGED <<is_running, scheduler_tasks, fetch_jobs, cleanup_jobs,
                          articles, topics, cycle, started, app_pc>>]_vars

\* C28 witness: start() has been called twice on the running scheduler.
C28_Witness == is_running /\ warnings = 2

(***************************************************************************)
(* C27.  As stated: after any sequence of cycles the TrendingTopic table   *)
(* holds at most one row per topic name.                                   *)
(***************************************************************************)
C27_OneRowPerTopic ==
    \A i, j \in 1..Len(topics) : topics[i].topic = topics[j].topic => i = j

(***************************************************************************)
(* C25.  As stated: with no API key configured the cycles run and every    *)
(* item comes back from analyze_news_batch with its local analysis.        *)
(***************************************************************************)
C25_LocalAnalysisWithoutKey ==
    \A c \in Cycles :
        \A k \in 1..Len(cycle[c].analyzed_news) :
            cycle[c].analyzed_news[k].has_analysis

(***************************************************************************)
(* C6.  At no time are two fetch-analyze-persist cycles in flight,         *)
(* whether started by a scheduler tick or by the refresh or trigger-update *)
(* endpoint.                                                               *)
(***************************************************************************)
C6_NoOverlappingCycles ==
    Cardinality({c \in Cycles : cycle[c].pc # "idle"}) <= 1

(***************************************************************************)
(* C15.  _categorize_news returns the category whose keyword list has the  *)
(* most keywords occurring in the text; on a tie the tied category that    *)
(* comes first in the order funding, acquisition, ipo, product,            *)
(* partnership, research, regulation; "general" when no keyword of any     *)
(* category occurs.  Text with keywords of exactly one category yields     *)
(* that category.                                                          *)
(***************************************************************************)
C15_CategoryOfMostKeywords ==
    (score_pc = "returned" /\ call.op = "categorize") =>
        LET text == FullText(call.news)
            order == <<"funding", "acquisition", "ipo", "product",
                       "partnership", "research", "regulation">>
            count(c) == Cardinality({kw \in {categories[c].keywords[k] :
                                                k \in 1..Len(categories[c].keywords)} :
                                        Contains(kw, text)})
        IN  /\ [c \in 1..Len(categories) |-> categories[c].name] = order
            /\ IF \A c \in 1..Len(order) : count(c) = 0
               THEN ret.value = "general"
               ELSE \E c \in 1..Len(order) :
                        /\ ret.value = order[c]
                        /\ \A d \in 1..Len(order) : count(d) <= count(c)
                        /\ \A d \in 1..(c - 1) : count(d) < count(c)
            /\ \A c \in 1..Len(order) :
                   (count(c) > 0 /\ \A d \in 1..Len(order) \ {c} : count(d) = 0)
                       => ret.value = order[c]

\* C15 witness: a text with one acquisition keyword and one partnership
\* keyword, the later category's keyword standing first in the text, is
\* categorized as acquisition.
C15_Witness ==
    /\ score_pc = "returned" /\ call.op = "categorize"
    /\ call.news.title = <<"D","e","a","l"," ","m","e","r","g","e","r">>
    /\ ret.value = "acquisition"

(***************************************************************************)
(* C16.  _extract_funding_round returns either none or exactly one member  *)
(* of the round list; when several round names occur in the text the one   *)
(* earliest in list order wins, not the one earliest in the text; and a    *)
(* round is returned only when its complete name occurs in the text: text  *)
(* with only "series" yields none.                                         *)
(***************************************************************************)
C16_RoundByListOrder ==
    (score_pc = "returned" /\ call.op = "funding_round") =>
        LET text == FullText(call.news)
            occurs == {k \in 1..Len(funding_rounds) : Contains(funding_rounds[k], text)}
        IN  /\ funding_rounds =
                   << <<"p","r","e","-","s","e","e","d">>, <<"s","e","e","d">>, <<"s","e","r","i","e","s"," ","a">>, <<"s","e","r","i","e","s"," ","b">>, <<"s","e","r","i","e","s"," ","c">>,
                      <<"s","e","r","i","e","s"," ","d">>, <<"b","r","i","d","g","e"," ","r","o","u","n","d">>, <<"i","p","o">>, <<"a","c","q","u","i","s","i","t","i","o","n">>, <<"m","e","r","g","e","r">> >>
            /\ \/ ret.value = None
               \/ \E k \in 1..Len(funding_rounds) : ret.value = funding_rounds[k]
            /\ occurs = {} <=> ret.value = None
            /\ occurs # {} =>
                   \E k \in occurs : /\ ret.value = funding_rounds[k]
                                     /\ \A j \in occurs : k <= j
            /\ (Contains(<<"s","e","r","i","e","s">>, text) /\ occurs = {}) => ret.value = None

\* C16 witness: "series a" stands first in the text and "seed", earlier in
\* the list, is returned.
C16_Witness ==
    /\ score_pc = "returned" /\ call.op = "funding_round"
    /\ Contains(<<"s","e","r","i","e","s"," ","a"," ">>, FullText(call.news))
    /\ ret.value = <<"s","e","e","d">>

(***************************************************************************)
(* C22.  For an item whose text is "OpenAI raised $100 million in Series C *)
(* funding led by Microsoft Ventures" the local analysis yields            *)
(* funding_amount "100", funding_round "series c", companies containing    *)
(* "Openai", category "funding" and an importance_score of at least 0.5.   *)
(* The item carries no date or a naive one.                                *)
(***************************************************************************)
C22_SeriesCExample ==
    (/\ score_pc = "returned" /\ call.op = "basic"
     /\ call.news.title = <<"O","p","e","n","A","I"," ","r","a","i","s","e","d"," ","$","1","0","0"," ","m","i","l","l","i","o","n"," ","i","n"," ","S","e","r","i","e","s"," ","C"," ","f","u","n","d","i","n","g"," ","l","e","d"," ","b","y"," ","M","i","c","r","o","s","o","f","t"," ","V","e","n","t","u","r","e","s">>
     /\ ~call.news.published_date.aware) =>
        /\ ~ret.raised
        /\ ret.value.funding_amount = <<"1","0","0">>
        /\ ret.value.funding_round = <<"s","e","r","i","e","s"," ","c">>
        /\ <<"O","p","e","n","a","i">> \in ret.value.companies
        /\ ret.value.category = "funding"
        /\ ret.value.importance_score >= 50

\* C22 witness: the analysis of the item has returned with its fields.
C22_Witness ==
    /\ score_pc = "returned" /\ call.op = "basic"
    /\ call.news.title = <<"O","p","e","n","A","I"," ","r","a","i","s","e","d"," ","$","1","0","0"," ","m","i","l","l","i","o","n"," ","i","n"," ","S","e","r","i","e","s"," ","C"," ","f","u","n","d","i","n","g"," ","l","e","d"," ","b","y"," ","M","i","c","r","o","s","o","f","t"," ","V","e","n","t","u","r","e","s">>
    /\ ~ret.raised
    /\ ret.value.funding_round = <<"s","e","r","i","e","s"," ","c">>
    /\ ret.value.importance_score = 100

(***************************************************************************)
(* C17.  As stated: the funding amount adds to the importance 0.4 if a     *)
(* "billion" or "b" unit token is present with the amount (as in "$2b" or  *)
(* "$2 billion"), else 0.3 if the amount is at least 100, else 0.2 if it   *)
(* is at least 50, else 0.1; it adds nothing when no amount was extracted  *)
(* or the amount does not parse as a number.                               *)
(***************************************************************************)
\* Whether the unit that follows the extracted amount in the text is
\* "billion" or "b".
BillionUnit(text) ==
    LET t == Lower(text)
        p == Least({q \in 1..4 : FirstAmount(q, text) # None})
        n == AmountPatternAt(p, t, Least({i \in 1..Len(t) : AmountPatternAt(p, t, i) # 0}))
    IN  UnitAt(t, NumEnd(t, n), << <<"b","i","l","l","i","o","n">>, <<"b">> >>)

C17_AmountContribution ==
    (score_pc = "returned" /\ call.op = "basic" /\ ~ret.raised) =>
        LET text == FullText(call.news)
            analysis == ret.value
            amount == analysis.funding_amount
            contribution ==
                IF amount = None \/ ~FloatParses(amount) THEN 0
                ELSE IF BillionUnit(text) THEN 40
                ELSE IF FloatWhole(amount) >= 100 THEN 30
                ELSE IF FloatWhole(amount) >= 50 THEN 20
                ELSE 10
        IN  analysis.importance_score =
                Min(contribution + CompanyBonus(analysis) + RoundBonus(analysis)
                        + DensityBonus(analysis), 100)

(***************************************************************************)
(* The scraper's fetch, src/scraper/news_fetcher.py:28-163.  entries holds *)
(* the feed entries that pass _is_relevant_news, source after source; a    *)
(* feed entry may carry a published_parsed time, an updated_parsed time,   *)
(* or neither.                                                             *)
(***************************************************************************)
\* _parse_date (lines 152-163): always a timezone-aware datetime, the time
\* of the fetch when the entry carries no time of its own.
_parse_date(entry, now) ==
    IF entry.published_parsed.present THEN AwareDate(entry.published_parsed.hour)
    ELSE IF entry.updated_parsed.present THEN AwareDate(entry.updated_parsed.hour)
    ELSE AwareDate(now)

\* _parse_news_entry (lines 90-112); summary and content play no part in
\* the fetch.
_parse_news_entry(entry, now) ==
    NewsItem(entry.title, <<>>, <<>>, entry.link, _parse_date(entry, now))

\* fetch_all_news, from the gathered entries to the returned list.
FetchAllNews ==
    /\ dedup_pc = "feeds"
    /\ all_news' = [i \in 1..Len(entries) |-> _parse_news_entry(entries[i], MaxAge)]
    /\ ret' = fetch_all_news(all_news')
    /\ dedup_pc' = "returned"
    /\ UNCHANGED <<unique_news, entries>>

(***************************************************************************)
(* C14.  As stated: the scraper's fetch_all_news returns the deduplicated  *)
(* items sorted by published date descending, items lacking a date being   *)
(* treated as earliest and placed last, truncated to at most               *)
(* MAX_NEWS_PER_FETCH items, so that the items kept are the most recent    *)
(* ones of the deduplicated set.                                           *)
(***************************************************************************)
\* The published date of a feed entry as the statement orders it: an entry
\* without any date is the earliest.
EntryKey(entry) ==
    IF entry.published_parsed.present THEN entry.published_parsed.hour
    ELSE IF entry.updated_parsed.present THEN entry.updated_parsed.hour
    ELSE -1

C14_SortedLatestFirstUndatedLast ==
    dedup_pc = "returned" =>
        LET kept == _deduplicate_news(entries)
            returned == ret.value
            KeyOf(news) ==
                EntryKey(kept[CHOOSE k \in 1..Len(kept) : kept[k].link = news.link])
            links == {returned[i].link : i \in 1..Len(returned)}
        IN  /\ ~ret.raised
            /\ Len(returned) = Min(Len(kept), MAX_NEWS_PER_FETCH)
            /\ Cardinality(links) = Len(returned)
            /\ links \subseteq {kept[k].link : k \in 1..Len(kept)}
            /\ \A i, j \in 1..Len(returned) :
                   i < j => KeyOf(returned[i]) >= KeyOf(returned[j])
            /\ \A k \in 1..Len(kept) :
                   kept[k].link \notin links =>
                       \A i \in 1..Len(returned) :
                           KeyOf(returned[i]) >= EntryKey(kept[k])

(***************************************************************************)
(* AIInvestmentNewsAgent's scheduled updates,                              *)
(* src/ai_news_agent/ai_agent.py:208-236.  A run_scheduler thread stands   *)
(* at "test" before `while self.is_running`, at "run_pending" and then at  *)
(* "sleep" in the body of the loop, and at "exited" once it has left it.   *)
(***************************************************************************)
\* Bound: the threads start_scheduled_updates can create in one run.
MaxThreads == 3

\* Lines 208-230.  The call that finds the flag set logs a warning and
\* returns.
start_scheduled_updates ==
    /\ \E t \in 1..MaxThreads : scheduler_threads[t] = "none"
    /\ IF agent_is_running
       THEN UNCHANGED <<agent_is_running, agent_jobs, scheduler_threads>>
       ELSE /\ agent_is_running' = TRUE
            /\ agent_jobs' = agent_jobs + 1
            /\ scheduler_threads' =
                   [scheduler_threads EXCEPT
                       ![Least({t \in 1..MaxThreads : scheduler_threads[t] = "none"})] = "test"]

\* Lines 232-236: the flag is cleared and the jobs are removed; the thread
\* is neither joined nor told in any other way.
stop_scheduled_updates ==
    /\ agent_is_running' = FALSE
    /\ agent_jobs' = 0
    /\ UNCHANGED scheduler_threads

\* Lines 222-225, one step of thread t: the test of the flag, the call of
\* schedule.run_pending, or the end of time.sleep(1).
run_scheduler(t) ==
    /\ scheduler_threads[t] \in {"test", "run_pending", "sleep"}
    /\ scheduler_threads' =
           [scheduler_threads EXCEPT
               ![t] = IF scheduler_threads[t] = "run_pending" THEN "sleep"
                      ELSE IF scheduler_threads[t] = "sleep" THEN "test"
                      ELSE IF agent_is_running THEN "run_pending"
                      ELSE "exited"]
    /\ UNCHANGED <<agent_is_running, agent_jobs>>

(***************************************************************************)
(* C29.  As stated: after any sequence of start_scheduled_updates and      *)
(* stop_scheduled_updates calls at most one scheduler thread is in the     *)
(* run-pending loop, that is past the test of the flag.                    *)
(***************************************************************************)
C29_OneSchedulerThread ==
    Cardinality({t \in 1..MaxThreads : scheduler_threads[t] \in {"run_pending", "sleep"}}) <= 1

(***************************************************************************)
(* ConnectionManager, src/main.py:37-62, and the /ws endpoint, lines 72-83. *)
(* broadcast walks self.active_connections itself, not a copy: the `for`   *)
(* statement keeps an index into the list, and other tasks run while       *)
(* send_text is awaited.                                                   *)
(***************************************************************************)
\* Bound: the sockets that connect in one run.
MaxConn == 3

\* websocket_endpoint, line 74: manager.connect (lines 41-44) accepts the
\* socket and appends it.
Connect(websocket) ==
    /\ websocket \notin closed
    /\ \A i \in 1..Len(active_connections) : active_connections[i] # websocket
    /\ active_connections' = Append(active_connections, websocket)
    /\ UNCHANGED <<position, disconnected, broadcast_pc, failing, closed, at_begin, sent_to>>

\* websocket_endpoint, lines 79-83: receive_text raises and the handler
\* calls manager.disconnect (lines 46-49), which removes the socket.
Disconnect(websocket) ==
    /\ \E i \in 1..Len(active_connections) : active_connections[i] = websocket
    /\ active_connections' = SelectSeq(active_connections, LAMBDA c : c # websocket)
    /\ closed' = closed \cup {websocket}
    /\ UNCHANGED <<position, disconnected, broadcast_pc, failing, at_begin, sent_to>>

\* Lines 51-53: broadcast is entered and the iterator over the list made.
BroadcastBegin ==
    /\ broadcast_pc = "idle"
    /\ broadcast_pc' = "send"
    /\ position' = 0
    /\ disconnected' = <<>>
    /\ at_begin' = {active_connections[i] : i \in 1..Len(active_connections)}
    /\ sent_to' = {}
    /\ UNCHANGED <<active_connections, failing, closed>>

\* Lines 53-58, one round of the loop: the iterator hands out the element
\* at its index and moves on; send_text returns or raises.
BroadcastSend ==
    /\ broadcast_pc = "send"
    /\ position < Len(active_connections)
    /\ LET connection == active_connections[position + 1]
       IN  IF connection \in failing
           THEN /\ disconnected' = Append(disconnected, connection)
                /\ UNCHANGED sent_to
           ELSE /\ sent_to' = sent_to \cup {connection}
                /\ UNCHANGED disconnected
    /\ position' = position + 1
    /\ UNCHANGED <<active_connections, broadcast_pc, failing, closed, at_begin>>

\* Lines 53 and 60-62: the index has reached the end of the list, the loop
\* ends and the connections whose send raised are removed.
BroadcastCleanup ==
    /\ broadcast_pc = "send"
    /\ position >= Len(active_connections)
    /\ active_connections' =
           SelectSeq(active_connections,
                     LAMBDA c : \A i \in 1..Len(disconnected) : disconnected[i] # c)
    /\ broadcast_pc' = "done"
    /\ UNCHANGED <<position, disconnected, failing, closed, at_begin, sent_to>>

(***************************************************************************)
(* C30.  As stated: when broadcast has returned, the message has been sent *)
(* to every connection that was in the list when broadcast began, has not  *)
(* disconnected since and whose send does not fail.                        *)
(***************************************************************************)
C30_BroadcastReachesAll ==
    broadcast_pc = "done" =>
        \A websocket \in at_begin :
            (websocket \notin closed /\ websocket \notin failing) => websocket \in sent_to

(***************************************************************************)
(* Specifications.  Each runs one part of the program; the variables of    *)
(* the other parts stay idle.                                              *)
(***************************************************************************)
NoCall == ScoreCall("none", NewsItem(<<>>, <<>>, <<>>, "", NoDate), BlankAnalysis, NoClient, 0)

InitDedup ==
    /\ all_news \in UNION {[1..n -> RawItems] : n \in 0..MaxNews}
    /\ unique_news = <<>>
    /\ dedup_pc = "merged"
    /\ entries = <<>>
    /\ call = NoCall /\ ret = NoReturn /\ score_pc = "idle"
    /\ news_list = <<>> /\ batch_llm = NoClient /\ analyzed_news = <<>>
    /\ group_start = 0 /\ results = <<>> /\ task_done = {} /\ batch_pc = "idle"
    /\ articles = <<>> /\ topics = <<>> /\ cycle = [c \in Cycles |-> NoCycle]
    /\ is_running = FALSE /\ fetch_jobs = 0 /\ cleanup_jobs = 0
    /\ scheduler_tasks = 0 /\ warnings = 0 /\ app_pc = "off" /\ started = 0
    /\ agent_is_running = FALSE /\ agent_jobs = 0
    /\ scheduler_threads = [t \in 1..MaxThreads |-> "none"]
    /\ active_connections = <<>> /\ position = 0 /\ disconnected = <<>>
    /\ broadcast_pc = "idle" /\ failing = {} /\ closed = {}
    /\ at_begin = {} /\ sent_to = {}

DedupNext ==
    \/ Deduplicate /\ UNCHANGED <<scoreVars, batchVars, cycleVars, threadVars, connVars>>
    \/ DeduplicateAgain /\ UNCHANGED <<scoreVars, batchVars, cycleVars, threadVars, connVars>>
SpecDedup == InitDedup /\ [][DedupNext]_vars

InitFetch ==
    /\ entries \in
           LET none == [present |-> FALSE, hour |-> 0]
               at(h) == [present |-> TRUE, hour |-> h]
               letters == <<"a", "b", "c", "d", "e", "f", "g", "h">>
               short == [link : {"https://a", "https://b"},
                         title : {<<"A","I">>, <<"G","P","T">>},
                         published_parsed : {none, at(MaxAge - 1)},
                         updated_parsed : {none, at(MaxAge - 2)}]
               long(n, k) ==
                   [i \in 1..n |->
                       [link |-> ToString(i),
                        title |-> <<letters[((i - 1) \div 8) + 1], letters[((i - 1) % 8) + 1]>>,
                        published_parsed |-> IF i % k = 0 THEN none ELSE at(i % MaxAge),
                        updated_parsed |-> none]]
           IN  UNION {[1..n -> short] : n \in 0..MaxNews}
                   \cup {long(n, k) : n \in MAX_NEWS_PER_FETCH..(MAX_NEWS_PER_FETCH + 2), k \in 2..3}
    /\ all_news = <<>>
    /\ unique_news = <<>>
    /\ dedup_pc = "feeds"
    /\ call = NoCall /\ ret = NoReturn /\ score_pc = "idle"
    /\ news_list = <<>> /\ batch_llm = NoClient /\ analyzed_news = <<>>
    /\ group_start = 0 /\ results = <<>> /\ task_done = {} /\ batch_pc = "idle"
    /\ articles = <<>> /\ topics = <<>> /\ cycle = [c \in Cycles |-> NoCycle]
    /\ is_running = FALSE /\ fetch_jobs = 0 /\ cleanup_jobs = 0
    /\ scheduler_tasks = 0 /\ warnings = 0 /\ app_pc = "off" /\ started = 0
    /\ agent_is_running = FALSE /\ agent_jobs = 0
    /\ scheduler_threads = [t \in 1..MaxThreads |-> "none"]
    /\ active_connections = <<>> /\ position = 0 /\ disconnected = <<>>
    /\ broadcast_pc = "idle" /\ failing = {} /\ closed = {}
    /\ at_begin = {} /\ sent_to = {}

FetchNext ==
    FetchAllNews /\ UNCHANGED <<call, score_pc, batchVars, cycleVars, threadVars, connVars>>
SpecFetch == InitFetch /\ [][FetchNext]_vars

InitAgent ==
    /\ all_news \in
           {rss \o api :
               rss \in UNION {[1..n -> AgentItems("struct_time")] : n \in 0..MaxNews},
               api \in UNION {[1..n -> AgentItems("str")] : n \in 0..1}}
    /\ unique_news = <<>>
    /\ dedup_pc = "gathered"
    /\ entries = <<>>
    /\ call = NoCall /\ ret = NoReturn /\ score_pc = "idle"
    /\ news_list = <<>> /\ batch_llm = NoClient /\ analyzed_news = <<>>
    /\ group_start = 0 /\ results = <<>> /\ task_done = {} /\ batch_pc = "idle"
    /\ articles = <<>> /\ topics = <<>> /\ cycle = [c \in Cycles |-> NoCycle]
    /\ is_running = FALSE /\ fetch_jobs = 0 /\ cleanup_jobs = 0
    /\ scheduler_tasks = 0 /\ warnings = 0 /\ app_pc = "off" /\ started = 0
    /\ agent_is_running = FALSE /\ agent_jobs = 0
    /\ scheduler_threads = [t \in 1..MaxThreads |-> "none"]
    /\ active_connections = <<>> /\ position = 0 /\ disconnected = <<>>
    /\ broadcast_pc = "idle" /\ failing = {} /\ closed = {}
    /\ at_begin = {} /\ sent_to = {}

AgentNext ==
    AgentFetchAll /\ UNCHANGED <<call, score_pc, batchVars, cycleVars, threadVars, connVars>>
SpecAgent == InitAgent /\ [][AgentNext]_vars

InitScore ==
    /\ call \in ScoreCalls
    /\ ret = NoReturn
    /\ score_pc = "called"
    /\ all_news = <<>> /\ unique_news = <<>> /\ dedup_pc = "idle" /\ entries = <<>>
    /\ news_list = <<>> /\ batch_llm = NoClient /\ analyzed_news = <<>>
    /\ group_start = 0 /\ results = <<>> /\ task_done = {} /\ batch_pc = "idle"
    /\ articles = <<>> /\ topics = <<>> /\ cycle = [c \in Cycles |-> NoCycle]
    /\ is_running = FALSE /\ fetch_jobs = 0 /\ cleanup_jobs = 0
    /\ scheduler_tasks = 0 /\ warnings = 0 /\ app_pc = "off" /\ started = 0
    /\ agent_is_running = FALSE /\ agent_jobs = 0
    /\ scheduler_threads = [t \in 1..MaxThreads |-> "none"]
    /\ active_connections = <<>> /\ position = 0 /\ disconnected = <<>>
    /\ broadcast_pc = "idle" /\ failing = {} /\ closed = {}
    /\ at_begin = {} /\ sent_to = {}

ScoreNext ==
    \/ CallRelevance /\ UNCHANGED <<dedupVars, batchVars, cycleVars, threadVars, connVars>>
    \/ CallImportance /\ UNCHANGED <<dedupVars, batchVars, cycleVars, threadVars, connVars>>
    \/ CallUrgency /\ UNCHANGED <<dedupVars, batchVars, cycleVars, threadVars, connVars>>
    \/ CallFundingRound /\ UNCHANGED <<dedupVars, batchVars, cycleVars, threadVars, connVars>>
    \/ CallCategorize /\ UNCHANGED <<dedupVars, batchVars, cycleVars, threadVars, connVars>>
    \/ CallBasicAnalysis /\ UNCHANGED <<dedupVars, batchVars, cycleVars, threadVars, connVars>>
    \/ CallAnalyzeSingle /\ UNCHANGED <<dedupVars, batchVars, cycleVars, threadVars, connVars>>
    \/ CallAiAnalysis /\ UNCHANGED <<dedupVars, batchVars, cycleVars, threadVars, connVars>>
SpecScore == InitScore /\ [][ScoreNext]_vars

InitBatch ==
    /\ news_list \in
           \* The items of a batch: one that is analyzed, one whose title is
           \* None (its task raises), one dated by the scraper (returned
           \* without analysis).
           LET BatchItems ==
                   { NewsItem(<<"I","P","O">>, <<>>, <<>>, "https://a", NoDate),
                     NewsItem(None, <<>>, <<>>, "https://b", NoDate),
                     NewsItem(<<"A","I">>, <<>>, <<>>, "https://c", AwareDate(MaxAge)) }
           IN  UNION {[1..n -> BatchItems] : n \in 0..MaxBatch}
    /\ batch_llm \in {NoClient, ClientRaises}
    /\ analyzed_news = <<>>
    /\ group_start = 0
    /\ results = <<>>
    /\ task_done = {}
    /\ batch_pc = "loop"
    /\ all_news = <<>> /\ unique_news = <<>> /\ dedup_pc = "idle" /\ entries = <<>>
    /\ call = NoCall /\ ret = NoReturn /\ score_pc = "idle"
    /\ articles = <<>> /\ topics = <<>> /\ cycle = [c \in Cycles |-> NoCycle]
    /\ is_running = FALSE /\ fetch_jobs = 0 /\ cleanup_jobs = 0
    /\ scheduler_tasks = 0 /\ warnings = 0 /\ app_pc = "off" /\ started = 0
    /\ agent_is_running = FALSE /\ agent_jobs = 0
    /\ scheduler_threads = [t \in 1..MaxThreads |-> "none"]
    /\ active_connections = <<>> /\ position = 0 /\ disconnected = <<>>
    /\ broadcast_pc = "idle" /\ failing = {} /\ closed = {}
    /\ at_begin = {} /\ sent_to = {}

BatchNext ==
    \/ BatchStartGroup /\ UNCHANGED <<dedupVars, scoreVars, cycleVars, threadVars, connVars>>
    \/ BatchTaskCompletes /\ UNCHANGED <<dedupVars, scoreVars, cycleVars, threadVars, connVars>>
    \/ BatchCollect /\ UNCHANGED <<dedupVars, scoreVars, cycleVars, threadVars, connVars>>
    \/ BatchPause /\ UNCHANGED <<dedupVars, scoreVars, cycleVars, threadVars, connVars>>
    \/ BatchReturn /\ UNCHANGED <<dedupVars, scoreVars, cycleVars, threadVars, connVars>>
SpecBatch == InitBatch /\ [][BatchNext]_vars

\* The service at startup_event: the database is initialised and the
\* initial cycle has been entered; the scheduler does not exist yet.
InitTrending ==
    /\ analyzed_news \in
           LET item(companies, category, hour) ==
                   Analyzed(NewsItem(<<>>, <<>>, <<>>, "", NaiveDate(hour)),
                            [NoAnalysis EXCEPT !.companies = companies,
                                               !.category = category])
               pool == {item(c, g, h) :
                           c \in {{}, {<<"O","p","e","n","a","i">>}, {<<"O","p","e","n","a","i">>, <<"A","c","m","e">>}},
                           g \in {"funding", "ipo"}, h \in 1..2}
                       \cup {Bare(NewsItem(<<>>, <<>>, <<>>, "", AwareDate(2)))}
               names == << <<"A">>, <<"B">>, <<"C">>, <<"D">>, <<"E">>, <<"F">>, <<"G">>, <<"H">>, <<"I">>, <<"J">>, <<"K">>, <<"L">> >>
               many(n) == [i \in 1..n |->
                              item({names[j] : j \in i..Len(names)}, "funding", i)]
           IN  UNION {[1..n -> pool] : n \in 0..MaxTrend}
                   \cup {many(n) : n \in 2..MaxTrend}
    /\ batch_pc = "analyzed"
    /\ all_news = <<>> /\ unique_news = <<>> /\ dedup_pc = "idle" /\ entries = <<>>
    /\ call = NoCall /\ ret = NoReturn /\ score_pc = "idle"
    /\ news_list = <<>> /\ batch_llm = NoClient
    /\ group_start = 0 /\ results = <<>> /\ task_done = {}
    /\ articles = <<>> /\ topics = <<>> /\ cycle = [c \in Cycles |-> NoCycle]
    /\ is_running = FALSE /\ fetch_jobs = 0 /\ cleanup_jobs = 0
    /\ scheduler_tasks = 0 /\ warnings = 0 /\ app_pc = "off" /\ started = 0
    /\ agent_is_running = FALSE /\ agent_jobs = 0
    /\ scheduler_threads = [t \in 1..MaxThreads |-> "none"]
    /\ active_connections = <<>> /\ position = 0 /\ disconnected = <<>>
    /\ broadcast_pc = "idle" /\ failing = {} /\ closed = {}
    /\ at_begin = {} /\ sent_to = {}

TrendingNext ==
    GetTrendingTopics /\ UNCHANGED <<dedupVars, cycleVars, threadVars, connVars>>
SpecTrending == InitTrending /\ [][TrendingNext]_vars

InitCycle ==
    /\ articles = <<>>
    /\ topics = <<>>
    /\ cycle = [c \in Cycles |-> IF c = 1 THEN NewCycle(1) ELSE NoCycle]
    /\ is_running = FALSE
    /\ fetch_jobs = 0
    /\ cleanup_jobs = 0
    /\ scheduler_tasks = 0
    /\ warnings = 0
    /\ app_pc = "starting"
    /\ started = 1
    /\ all_news = <<>> /\ unique_news = <<>> /\ dedup_pc = "idle" /\ entries = <<>>
    /\ call = NoCall /\ ret = NoReturn /\ score_pc = "idle"
    /\ news_list = <<>> /\ batch_llm = NoClient /\ analyzed_news = <<>>
    /\ group_start = 0 /\ results = <<>> /\ task_done = {} /\ batch_pc = "idle"
    /\ agent_is_running = FALSE /\ agent_jobs = 0
    /\ scheduler_threads = [t \in 1..MaxThreads |-> "none"]
    /\ active_connections = <<>> /\ position = 0 /\ disconnected = <<>>
    /\ broadcast_pc = "idle" /\ failing = {} /\ closed = {}
    /\ at_begin = {} /\ sent_to = {}

CycleNext ==
    \/ SchedulerStart /\ UNCHANGED <<dedupVars, scoreVars, batchVars, threadVars, connVars>>
    \/ SchedulerTick /\ UNCHANGED <<dedupVars, scoreVars, batchVars, threadVars, connVars>>
    \/ RefreshNews /\ UNCHANGED <<dedupVars, scoreVars, batchVars, threadVars, connVars>>
    \/ TriggerNewsUpdate /\ UNCHANGED <<dedupVars, scoreVars, batchVars, threadVars, connVars>>
    \/ Shutdown /\ UNCHANGED <<dedupVars, scoreVars, batchVars, threadVars, connVars>>
    \/ SchedulerStartAgain /\ UNCHANGED <<dedupVars, scoreVars, batchVars, threadVars, connVars>>
    \/ SchedulerCleanup /\ UNCHANGED <<dedupVars, scoreVars, batchVars, threadVars, connVars>>
    \/ \E c \in Cycles : CycleFetch(c) /\ UNCHANGED <<dedupVars, scoreVars, batchVars, threadVars, connVars>>
    \/ \E c \in Cycles : CycleAnalyze(c) /\ UNCHANGED <<dedupVars, scoreVars, batchVars, threadVars, connVars>>
    \/ \E c \in Cycles : CyclePersistItem(c) /\ UNCHANGED <<dedupVars, scoreVars, batchVars, threadVars, connVars>>
    \/ \E c \in Cycles : CycleCommit(c) /\ UNCHANGED <<dedupVars, scoreVars, batchVars, threadVars, connVars>>
    \/ \E c \in Cycles : CycleTopic(c) /\ UNCHANGED <<dedupVars, scoreVars, batchVars, threadVars, connVars>>
    \/ \E c \in Cycles : CycleTopicsCommit(c) /\ UNCHANGED <<dedupVars, scoreVars, batchVars, threadVars, connVars>>
    \/ \E c \in Cycles : CycleBroadcast(c) /\ UNCHANGED <<dedupVars, scoreVars, batchVars, threadVars, connVars>>
SpecCycle == InitCycle /\ [][CycleNext]_vars

\* The agent after __init__ (ai_agent.py:56): is_running is False and no
\* thread exists.
InitThreads ==
    /\ agent_is_running = FALSE
    /\ agent_jobs = 0
    /\ scheduler_threads = [t \in 1..MaxThreads |-> "none"]
    /\ all_news = <<>> /\ unique_news = <<>> /\ dedup_pc = "idle" /\ entries = <<>>
    /\ call = NoCall /\ ret = NoReturn /\ score_pc = "idle"
    /\ news_list = <<>> /\ batch_llm = NoClient /\ analyzed_news = <<>>
    /\ group_start = 0 /\ results = <<>> /\ task_done = {} /\ batch_pc = "idle"
    /\ articles = <<>> /\ topics = <<>> /\ cycle = [c \in Cycles |-> NoCycle]
    /\ is_running = FALSE /\ fetch_jobs = 0 /\ cleanup_jobs = 0
    /\ scheduler_tasks = 0 /\ warnings = 0 /\ app_pc = "off" /\ started = 0
    /\ active_connections = <<>> /\ position = 0 /\ disconnected = <<>>
    /\ broadcast_pc = "idle" /\ failing = {} /\ closed = {}
    /\ at_begin = {} /\ sent_to = {}

\* The manager after __init__ (main.py:38-39): no connection.  The sockets
\* whose send_text raises are fixed for the run.
InitBroadcast ==
    /\ active_connections = <<>>
    /\ position = 0
    /\ disconnected = <<>>
    /\ broadcast_pc = "idle"
    /\ failing \in SUBSET (1..MaxConn)
    /\ closed = {}
    /\ at_begin = {}
    /\ sent_to = {}
    /\ all_news = <<>> /\ unique_news = <<>> /\ dedup_pc = "idle" /\ entries = <<>>
    /\ call = NoCall /\ ret = NoReturn /\ score_pc = "idle"
    /\ news_list = <<>> /\ batch_llm = NoClient /\ analyzed_news = <<>>
    /\ group_start = 0 /\ results = <<>> /\ task_done = {} /\ batch_pc = "idle"
    /\ articles = <<>> /\ topics = <<>> /\ cycle = [c \in Cycles |-> NoCycle]
    /\ is_running = FALSE /\ fetch_jobs = 0 /\ cleanup_jobs = 0
    /\ scheduler_tasks = 0 /\ warnings = 0 /\ app_pc = "off" /\ started = 0
    /\ agent_is_running = FALSE /\ agent_jobs = 0
    /\ scheduler_threads = [t \in 1..MaxThreads |-> "none"]

BroadcastNext ==
    \/ \E websocket \in 1..MaxConn :
          Connect(websocket) /\ UNCHANGED <<dedupVars, scoreVars, batchVars, cycleVars, threadVars>>
    \/ \E websocket \in 1..MaxConn :
          Disconnect(websocket) /\ UNCHANGED <<dedupVars, scoreVars, batchVars, cycleVars, threadVars>>
    \/ BroadcastBegin /\ UNCHANGED <<dedupVars, scoreVars, batchVars, cycleVars, threadVars>>
    \/ BroadcastSend /\ UNCHANGED <<dedupVars, scoreVars, batchVars, cycleVars, threadVars>>
    \/ BroadcastCleanup /\ UNCHANGED <<dedupVars, scoreVars, batchVars, cycleVars, threadVars>>
SpecBroadcast == InitBroadcast /\ [][BroadcastNext]_vars

ThreadsNext ==
    \/ start_scheduled_updates
          /\ UNCHANGED <<dedupVars, scoreVars, batchVars, cycleVars, connVars>>
    \/ stop_scheduled_updates
          /\ UNCHANGED <<dedupVars, scoreVars, batchVars, cycleVars, connVars>>
    \/ \E t \in 1..MaxThreads :
          run_scheduler(t) /\ UNCHANGED <<dedupVars, scoreVars, batchVars, cycleVars, connVars>>
SpecThreads == InitThreads /\ [][ThreadsNext]_vars

\* The event loop runs every task that is ready: a cycle that can take its
\* next step takes it.
SpecCycleFair ==
    /\ SpecCycle
    /\ \A c \in Cycles :
          WF_vars(/\ \/ CycleFetch(c) \/ CycleAnalyze(c) \/ CyclePersistItem(c)
                     \/ CycleCommit(c) \/ CycleTopic(c) \/ CycleTopicsCommit(c)
                     \/ CycleBroadcast(c)
                  /\ UNCHANGED <<dedupVars, scoreVars, batchVars, threadVars, connVars>>)

=============================================================================
